---------------------------- MODULE Spec2Model ----------------------------
(***************************************************************************)
(* Category-tree traversal and multi-language reconciliation of the        *)
(* cpv_data extractor (src/src/main.py, src/src/cpv_category.py).          *)
(*                                                                         *)
(* The specifications share the variables of this module:                  *)
(*   SpecFormat  format_category_paths applied to arbitrary bounded paths  *)
(*   Spec        fetch_all_categories: one fetch_categories walk per root, *)
(*               run by the threads of a ThreadPoolExecutor                *)
(*   SpecMerge   the suffix-and-outer-join step of main()                  *)
(*   SpecProps   fetch_category_properties and merge_category_properties   *)
(*   SpecPlaceholder, SpecRetry, SpecBackup   main() of three scripts of   *)
(*               src/src/backup                                            *)
(* A Python dict is a sequence of <<key, value>> pairs in insertion order. *)
(* Ids, names and column names are strings; NaN is the string "NaN".       *)
(***************************************************************************)
EXTENDS Integers, Sequences, FiniteSets, TLC

VARIABLES
    \* --- format_category_paths (SpecFormat) ---
    categoryIdPath,     \* argument: list of ids
    categoryNamePath,   \* argument: list of names
    finalCategoryId,    \* argument: explicit leaf id
    finalCategoryName,  \* argument: explicit leaf name
    fmtPc,              \* "call" | "returned" | "raised"
    fmtOut,             \* the returned dict, or the exception's name
    \* --- the category API as seen by one fetch_all_categories call ---
    parent,             \* node -> parent node, 0 for a top-level category
    pathStyle,          \* "self": categoryIdPath ends at the node itself;
                        \* "parent": it stops at the node's parent
    fetchFault,         \* node -> outcome of requests.get for its children
    missingKey,         \* node -> key absent from its record, or "none"
    language,           \* fetch_all_categories' language argument
    \* --- fetch_all_categories / fetch_categories (Spec) ---
    stack,              \* per future: call stack of recursive_fetch frames
    result,             \* per future: fetch_categories' local result list
    tstate,             \* per future: "pending"|"running"|"done"|"raised"
    category_data,      \* fetch_all_categories' local list
    nextFuture,         \* position of the for loop over futures
    cstate,             \* "init"|"collecting"|"shutdown"|"returned"|"raised"
    fetched,            \* per future: the urls its walk passed to requests.get
    \* --- main(): suffix and outer join (SpecMerge) ---
    language_categories,\* per language: the rows fetch_all_categories gave
    language_dfs,       \* per language built so far: its DataFrame
    merged_df,          \* the DataFrame being merged
    mergeIdx,           \* position of the current for loop over languages
    mergePc,            \* "build"|"merge"|"dedup"|"done"|"raised"
    \* --- the property API as seen by one fetch_category_properties call ---
    propSchema,         \* leaf position -> index of its schema in PropSchemas
    raising,            \* language -> how many of its first fetches raise
    deviant,            \* the language whose responses differ, and how
    \* --- fetch_category_properties / merge_category_properties (SpecProps) ---
    future_to_language, \* the submitted futures in order: language, state
                        \* "running"|"finished"|"raised", returned list
    fs_pending,         \* futures as_completed has still to yield
    retry_count,        \* local of fetch_category_properties
    prop_language_dfs,  \* dict language -> DataFrame, in insertion order
    prop_log,           \* kinds of the messages logged so far
    prop_merged_df,     \* the exported property table
    propPc,             \* "submit"|"iterate"|"exit"|"returned"|"merged"|
                        \* "merge_raised"
    \* --- backup/'property_language copy 2.py' main() (SpecPlaceholder) ---
    phResponse,         \* input: category -> kind of its listProp responses
    phSilent,           \* input: languages whose responses have data = []
    phReadFails,        \* input: the S3 read of the category file raises
    ph_category_ids,    \* main's local category_ids
    ph_futures,         \* fetch_all_property_values' local futures
    all_property_values,\* fetch_all_property_values' local list
    phNext,             \* position of the for loop over futures
    df_pivot,           \* the exported table; <<>> when nothing is exported
    phPc,               \* "read"|"submit"|"collect"|"table"|"exported"|
                        \* "failed"
    \* --- backup/category_language.py main() (SpecRetry) ---
    readFailures,       \* input: how many of the first S3 reads raise
    nameOutcome,        \* input: category -> outcome of its name fetches
    uploadFails,        \* input: to_csv / put_object raises
    s3_retry_count,     \* main's local retry_count
    s3_reads,           \* history: number of get_object calls made
    s3_sleeps,          \* history: retry_count at every time.sleep call
    file_category_ids,  \* main's local category_ids
    names_requested,    \* history: the (category, language) pairs submitted
    names_pending,      \* futures as_completed has still to yield
    category_info,      \* the (category, language) pairs with a name stored
    uploaded,           \* put_object was called
    s3Pc,               \* "read"|"submit"|"names"|"done"|"gave_up"|
                        \* "upload_failed"
    \* --- backup/main.py main() (SpecBackup) ---
    default_result,     \* the list object that is fetch_categories' default
                        \* for 'result'
    all_categories,     \* main's local list
    bk_category_ids,    \* main's local category_ids
    bkReturned,         \* history: length of the list every call returned
    bkIdx,              \* position of the for loop over category_ids[:3]
    bk_csv,             \* the exported table; <<>> before the export
    bkPc                \* "top"|"loop"|"exported"|"raised"

fmtVars == <<categoryIdPath, categoryNamePath, finalCategoryId,
             finalCategoryName, fmtPc, fmtOut>>

apiVars == <<parent, pathStyle, fetchFault, missingKey, language>>

walkVars == <<stack, result, tstate, category_data, nextFuture, cstate,
             fetched>>

mergeVars == <<language_categories, language_dfs, merged_df, mergeIdx,
               mergePc>>

propVars == <<propSchema, raising, deviant, future_to_language, fs_pending,
              retry_count, prop_language_dfs, prop_log, prop_merged_df,
              propPc>>

phVars == <<phResponse, phSilent, phReadFails, ph_category_ids, ph_futures,
            all_property_values, phNext, df_pivot, phPc>>

s3Vars == <<readFailures, nameOutcome, uploadFails, s3_retry_count, s3_reads,
            s3_sleeps, file_category_ids, names_requested, names_pending,
            category_info, uploaded, s3Pc>>

bkVars == <<default_result, all_categories, bk_category_ids, bkReturned,
            bkIdx, bk_csv, bkPc>>

backupVars == <<phVars, s3Vars, bkVars>>

vars == <<fmtVars, apiVars, walkVars, mergeVars, propVars, backupVars>>

-----------------------------------------------------------------------------
(* Bounds *)
MaxPathLen == 4     \* longest id/name path given to the formatter
NumIds == 2         \* distinct ids / names used in formatter paths
NumNodes == 5       \* categories in the catalog (roots included)
NumRoots == 2       \* top-level categories handed to fetch_all_categories
MaxFaults == 1      \* failing fetches plus malformed records in the catalog
NumLeaves == 5      \* leaf categories of the catalog the languages draw from
MaxRows == 3        \* rows one language's fetch returns
NumPropLeaves == 2  \* leaf categories whose properties are fetched
MaxRaises == 1      \* fetches of one language that raise before one returns

LANGUAGES == <<"en", "de", "fr">>

-----------------------------------------------------------------------------
(* Python dict, insertion ordered *)

EmptyDict == <<>>

DictKeys(d) == {d[i][1] : i \in 1..Len(d)}

DictHas(d, k) == k \in DictKeys(d)

DictGet(d, k) == d[CHOOSE i \in 1..Len(d) : d[i][1] = k][2]

\* d[k] = v : overwrite in place when the key exists, else append
DictSet(d, k, v) ==
    IF DictHas(d, k)
    THEN [i \in 1..Len(d) |-> IF d[i][1] = k THEN <<k, v>> ELSE d[i]]
    ELSE Append(d, <<k, v>>)

Min(a, b) == IF a < b THEN a ELSE b

\* str.endswith
EndsWith(s, suffix) ==
    /\ Len(s) >= Len(suffix)
    /\ SubSeq(s, Len(s) - Len(suffix) + 1, Len(s)) = suffix

-----------------------------------------------------------------------------
(* format_category_paths, src/src/main.py:26-54 *)

\* f'subCategoryLevel{index-1}Id' / f'subCategoryLevel{index-1}Name'
SubLevelIdKey(level) == "subCategoryLevel" \o ToString(level) \o "Id"
SubLevelNameKey(level) == "subCategoryLevel" \o ToString(level) \o "Name"

\* A slip in the level numbering: the loop counter itself names the level.
FormatLoopBody_OffByOne(output, index, idPath, namePath, finalId, finalName) ==
    IF index = Len(idPath)
    THEN DictSet(DictSet(output, "leafCategoryId", finalId),
                 "leafCategoryName", finalName)
    ELSE DictSet(DictSet(output, SubLevelIdKey(index), idPath[index]),
                 SubLevelNameKey(index), namePath[index])

\* One iteration of the for loop (main.py:43-52).  index is enumerate's
\* counter (start=2); the zipped item is element index-1 (0-based) of each
\* path, i.e. element index of the 1-based sequences here.
FormatLoopBody(output, index, idPath, namePath, finalId, finalName) ==
    IF index = Len(idPath)
    THEN DictSet(DictSet(output, "leafCategoryId", finalId),
                 "leafCategoryName", finalName)
    ELSE DictSet(DictSet(output, SubLevelIdKey(index - 1), idPath[index]),
                 SubLevelNameKey(index - 1), namePath[index])

\* The for loop: zip stops at the shorter of the two tails.
RECURSIVE FormatLoop(_, _, _, _, _, _)
FormatLoop(output, index, idPath, namePath, finalId, finalName) ==
    IF index > Min(Len(idPath), Len(namePath))
    THEN output
    ELSE FormatLoop(FormatLoopBody(output, index, idPath, namePath,
                                   finalId, finalName),
                    index + 1, idPath, namePath, finalId, finalName)

\* The whole function.  categoryIdPath[0] / categoryNamePath[0] raise
\* IndexError on an empty list (main.py:40); nothing else raises.
FormatCategoryPaths(idPath, namePath, finalId, finalName) ==
    IF Len(idPath) = 0 \/ Len(namePath) = 0
    THEN [exc |-> "IndexError", output |-> EmptyDict]
    ELSE [exc |-> "none",
          output |-> FormatLoop(<<<<"topCategoryId", idPath[1]>>,
                                  <<"topCategoryName", namePath[1]>>>>,
                                2, idPath, namePath, finalId, finalName)]

-----------------------------------------------------------------------------
(* SpecFormat: the formatter on every bounded input *)

FmtIds == {"i" \o ToString(k) : k \in 1..NumIds}
FmtNames == {"n" \o ToString(k) : k \in 1..NumIds}

SeqsUpTo(S, n) == UNION {[1..m -> S] : m \in 0..n}

\* Values of the variables a specification does not use
FmtIdle ==
    /\ categoryIdPath = <<>>
    /\ categoryNamePath = <<>>
    /\ finalCategoryId = ""
    /\ finalCategoryName = ""
    /\ fmtPc = "idle"
    /\ fmtOut = EmptyDict

ApiIdle ==
    /\ parent = <<>>
    /\ pathStyle = "self"
    /\ fetchFault = <<>>
    /\ missingKey = <<>>
    /\ language = ""

WalkIdle ==
    /\ stack = <<>>
    /\ result = <<>>
    /\ tstate = <<>>
    /\ category_data = <<>>
    /\ nextFuture = 0
    /\ cstate = "idle"
    /\ fetched = <<>>

MergeIdle ==
    /\ language_categories = <<>>
    /\ language_dfs = <<>>
    /\ merged_df = <<>>
    /\ mergeIdx = 0
    /\ mergePc = "idle"

PropIdle ==
    /\ propSchema = <<>>
    /\ raising = <<>>
    /\ deviant = [language |-> 0, kind |-> "none"]
    /\ future_to_language = <<>>
    /\ fs_pending = {}
    /\ retry_count = 0
    /\ prop_language_dfs = EmptyDict
    /\ prop_log = {}
    /\ prop_merged_df = <<>>
    /\ propPc = "idle"

PhIdle ==
    /\ phResponse = <<>>
    /\ phSilent = {}
    /\ phReadFails = FALSE
    /\ ph_category_ids = <<>>
    /\ ph_futures = <<>>
    /\ all_property_values = <<>>
    /\ phNext = 0
    /\ df_pivot = <<>>
    /\ phPc = "idle"

S3Idle ==
    /\ readFailures = 0
    /\ nameOutcome = <<>>
    /\ uploadFails = FALSE
    /\ s3_retry_count = 0
    /\ s3_reads = 0
    /\ s3_sleeps = <<>>
    /\ file_category_ids = <<>>
    /\ names_requested = {}
    /\ names_pending = {}
    /\ category_info = {}
    /\ uploaded = FALSE
    /\ s3Pc = "idle"

BkIdle ==
    /\ default_result = <<>>
    /\ all_categories = <<>>
    /\ bk_category_ids = <<>>
    /\ bkReturned = <<>>
    /\ bkIdx = 0
    /\ bk_csv = <<>>
    /\ bkPc = "idle"

BackupIdle == PhIdle /\ S3Idle /\ BkIdle

InitFormat ==
    /\ BackupIdle
    /\ PropIdle
    /\ ApiIdle
    /\ WalkIdle
    /\ MergeIdle
    /\ categoryIdPath \in SeqsUpTo(FmtIds, MaxPathLen)
    /\ categoryNamePath \in SeqsUpTo(FmtNames, MaxPathLen)
    /\ finalCategoryId \in {"i1", "leaf"}
    /\ finalCategoryName \in {"n1", "leafname"}
    /\ fmtPc = "call"
    /\ fmtOut = EmptyDict

\* A call that returns its dict (main.py:54)
FormatReturn ==
    /\ fmtPc = "call"
    /\ LET r == FormatCategoryPaths(categoryIdPath, categoryNamePath,
                                    finalCategoryId, finalCategoryName)
       IN /\ r.exc = "none"
          /\ fmtPc' = "returned"
          /\ fmtOut' = r.output
    /\ UNCHANGED <<categoryIdPath, categoryNamePath, finalCategoryId,
                   finalCategoryName, apiVars, walkVars, mergeVars, propVars, backupVars>>

\* A call that leaves by an exception (main.py:40)
FormatRaise ==
    /\ fmtPc = "call"
    /\ LET r == FormatCategoryPaths(categoryIdPath, categoryNamePath,
                                    finalCategoryId, finalCategoryName)
       IN /\ r.exc # "none"
          /\ fmtPc' = "raised"
          /\ fmtOut' = r.exc
    /\ UNCHANGED <<categoryIdPath, categoryNamePath, finalCategoryId,
                   finalCategoryName, apiVars, walkVars, mergeVars, propVars, backupVars>>

NextFormat == FormatReturn \/ FormatRaise

SpecFormat == InitFormat /\ [][NextFormat]_vars

-----------------------------------------------------------------------------
(* The category API (listSubCategories), spec section 6 *)

Nodes == 1..NumNodes
Roots == 1..NumRoots

\* categoryId / categoryName of a node as the API reports them
IdOf(n) == ToString(n)
NameOf(n, lang) == "name" \o ToString(n) \o lang
NodeOfId(id) == CHOOSE n \in Nodes : IdOf(n) = id

Children(n) == {c \in Nodes : parent[c] = n}

\* leafCategory flag: a category without subcategories.  A top-level id is
\* always fetched, whatever it has below it.
IsLeaf(n) == n \notin Roots /\ Children(n) = {}

RECURSIVE SetToSortedSeq(_)
SetToSortedSeq(S) ==
    IF S = {} THEN <<>>
    ELSE LET m == CHOOSE x \in S : \A y \in S : x <= y
         IN <<m>> \o SetToSortedSeq(S \ {m})

\* root-to-node path, the node included
RECURSIVE PathTo(_)
PathTo(n) == IF parent[n] = 0 THEN <<n>> ELSE Append(PathTo(parent[n]), n)

RootOf(n) == PathTo(n)[1]

\* the path the API reports for a (non-root) node
ReportedPath(n) == IF pathStyle = "self" THEN PathTo(n) ELSE PathTo(parent[n])

RecordKeys == {"categoryId", "categoryName", "leafCategory",
               "categoryIdPath", "categoryNamePath"}

\* one element of the 'data' list: the record of child n, a dict
ChildRecord(n, lang) ==
    LET p == ReportedPath(n)
        full == <<
            <<"categoryId", IdOf(n)>>,
            <<"categoryName", NameOf(n, lang)>>,
            <<"leafCategory", IsLeaf(n)>>,
            <<"categoryIdPath", [i \in 1..Len(p) |-> IdOf(p[i])]>>,
            <<"categoryNamePath", [i \in 1..Len(p) |-> NameOf(p[i], lang)]>> >>
    IN SelectSeq(full, LAMBDA kv : kv[1] # missingKey[n])

FetchKinds == {"ok", "http_error", "bad_json", "no_data_key", "network_error"}

\* requests.get(url) for a listSubCategories url
HttpGet(url) ==
    LET n == NodeOfId(url.categoryId)
        kids == SetToSortedSeq(Children(n))
    IN [raises      |-> fetchFault[n] = "network_error",
        status_code |-> IF fetchFault[n] = "http_error" THEN 500 ELSE 200,
        decodable   |-> fetchFault[n] # "bad_json",
        hasData     |-> fetchFault[n] # "no_data_key",
        data        |-> [i \in 1..Len(kids) |-> ChildRecord(kids[i], url.language)]]

-----------------------------------------------------------------------------
(* fetch_categories / recursive_fetch, src/src/main.py:56-102 *)

\* sub_url / start_url: the two parameters that vary (main.py:82, 133)
\* the url is built with a fixed language tag
SubCategoriesUrl_FixedLanguage(lang, id) == [language |-> "en", categoryId |-> id]

SubCategoriesUrl(lang, id) == [language |-> lang, categoryId |-> id]

NewFrame(url) == [url |-> url, pc |-> "get", categories |-> <<>>, i |-> 1]

\* a recursive_fetch call ends and control returns to its caller
PopFrame(st) == SubSeq(st, 1, Len(st) - 1)

\* An exception neither 'except' clause names (main.py:92-95) passes through
\* every enclosing recursive_fetch frame and leaves fetch_categories.
Unwind(st) == <<>>

\* a slip: the error branch gives up the whole walk instead of the one call
OnFetchError_AbortWalk(st) == <<>>

\* A failed fetch of one node: the else branch (main.py:96-97) or one of the
\* except clauses (main.py:92-95) logs, and that recursive_fetch call ends.
OnFetchError(st) == PopFrame(st)

Top(st) == st[Len(st)]
ReplaceTop(st, f) == [st EXCEPT ![Len(st)] = f]

\* state of a future after its walk took the stack to st
AfterStep(st) == IF st = <<>> THEN "done" ELSE "running"

Running(t) == t \in DOMAIN tstate /\ tstate[t] = "running" /\ stack[t] # <<>>

\* requests.get raises (main.py:71): nothing catches it
GetRaises(t) ==
    /\ Running(t)
    /\ Top(stack[t]).pc = "get"
    /\ HttpGet(Top(stack[t]).url).raises
    /\ stack' = [stack EXCEPT ![t] = Unwind(stack[t])]
    /\ tstate' = [tstate EXCEPT ![t] = "raised"]
    /\ fetched' = [fetched EXCEPT ![t] = Append(@, Top(stack[t]).url)]
    /\ UNCHANGED <<result, category_data, nextFuture, cstate, apiVars, fmtVars, mergeVars, propVars, backupVars>>

\* non-200 status, undecodable body or no 'data' key (main.py:73-77, 92-97)
GetFails(t) ==
    /\ Running(t)
    /\ Top(stack[t]).pc = "get"
    /\ LET r == HttpGet(Top(stack[t]).url)
       IN /\ ~r.raises
          /\ r.status_code # 200 \/ ~r.decodable \/ ~r.hasData
    /\ stack' = [stack EXCEPT ![t] = OnFetchError(stack[t])]
    /\ tstate' = [tstate EXCEPT ![t] = AfterStep(stack'[t])]
    /\ fetched' = [fetched EXCEPT ![t] = Append(@, Top(stack[t]).url)]
    /\ UNCHANGED <<result, category_data, nextFuture, cstate, apiVars, fmtVars, mergeVars, propVars, backupVars>>

\* categories = data['data'] (main.py:73-77)
GetOk(t) ==
    /\ Running(t)
    /\ Top(stack[t]).pc = "get"
    /\ LET r == HttpGet(Top(stack[t]).url)
       IN /\ ~r.raises /\ r.status_code = 200 /\ r.decodable /\ r.hasData
          /\ stack' = [stack EXCEPT ![t] =
                 ReplaceTop(stack[t], [Top(stack[t]) EXCEPT
                                          !.pc = "loop",
                                          !.categories = r.data,
                                          !.i = 1])]
    /\ fetched' = [fetched EXCEPT ![t] = Append(@, Top(stack[t]).url)]
    /\ UNCHANGED <<result, tstate, category_data, nextFuture, cstate,
                   apiVars, fmtVars, mergeVars, propVars, backupVars>>

InLoop(t) ==
    /\ Running(t)
    /\ Top(stack[t]).pc = "loop"
    /\ Top(stack[t]).i <= Len(Top(stack[t]).categories)

CurrentRecord(t) == Top(stack[t]).categories[Top(stack[t]).i]

\* the keys the loop body reads for a record (main.py:81-88)
KeysRead(rec) ==
    IF ~DictHas(rec, "leafCategory") THEN {"leafCategory"}
    ELSE IF ~DictGet(rec, "leafCategory")
         THEN {"leafCategory", "categoryId"}
         ELSE RecordKeys

\* the for loop is exhausted: recursive_fetch returns (main.py:79)
LoopEnd(t) ==
    /\ Running(t)
    /\ Top(stack[t]).pc = "loop"
    /\ Top(stack[t]).i > Len(Top(stack[t]).categories)
    /\ stack' = [stack EXCEPT ![t] = PopFrame(stack[t])]
    /\ tstate' = [tstate EXCEPT ![t] = AfterStep(stack'[t])]
    /\ UNCHANGED <<result, category_data, nextFuture, cstate, fetched, apiVars, fmtVars, mergeVars, propVars, backupVars>>

\* a record lacks a key the body reads: KeyError, caught by this call's
\* except clause outside the for loop, so the call ends (main.py:92-93)
LoopKeyError(t) ==
    /\ InLoop(t)
    /\ ~(KeysRead(CurrentRecord(t)) \subseteq DictKeys(CurrentRecord(t)))
    /\ stack' = [stack EXCEPT ![t] = PopFrame(stack[t])]
    /\ tstate' = [tstate EXCEPT ![t] = AfterStep(stack'[t])]
    /\ UNCHANGED <<result, category_data, nextFuture, cstate, fetched, apiVars, fmtVars, mergeVars, propVars, backupVars>>

\* a non-leaf record: recursive_fetch(sub_url) (main.py:81-83)
LoopRecurse(t) ==
    /\ InLoop(t)
    /\ KeysRead(CurrentRecord(t)) \subseteq DictKeys(CurrentRecord(t))
    /\ ~DictGet(CurrentRecord(t), "leafCategory")
    /\ LET f == Top(stack[t])
           sub_url == SubCategoriesUrl(language,
                                       DictGet(CurrentRecord(t), "categoryId"))
       IN stack' = [stack EXCEPT ![t] =
              Append(ReplaceTop(stack[t], [f EXCEPT !.i = f.i + 1]),
                     NewFrame(sub_url))]
    /\ UNCHANGED <<result, tstate, category_data, nextFuture, cstate,
                   fetched, apiVars, fmtVars, mergeVars, propVars, backupVars>>

\* a leaf record: format it and append the row (main.py:84-91); an
\* exception of the formatter is not caught and ends the walk
LoopLeaf(t) ==
    /\ InLoop(t)
    /\ KeysRead(CurrentRecord(t)) \subseteq DictKeys(CurrentRecord(t))
    /\ DictGet(CurrentRecord(t), "leafCategory")
    /\ LET f == Top(stack[t])
           rec == CurrentRecord(t)
           final_category_id == DictGet(rec, "categoryId")
           final_category_name == DictGet(rec, "categoryName")
           formatted == FormatCategoryPaths(DictGet(rec, "categoryIdPath"),
                                            DictGet(rec, "categoryNamePath"),
                                            final_category_id,
                                            final_category_name)
       IN IF formatted.exc = "none"
          THEN /\ result' = [result EXCEPT ![t] = Append(@, formatted.output)]
               /\ stack' = [stack EXCEPT ![t] =
                      ReplaceTop(stack[t], [f EXCEPT !.i = f.i + 1])]
               /\ UNCHANGED tstate
          ELSE /\ stack' = [stack EXCEPT ![t] = Unwind(stack[t])]
               /\ tstate' = [tstate EXCEPT ![t] = "raised"]
               /\ UNCHANGED result
    /\ UNCHANGED <<category_data, nextFuture, cstate, fetched, apiVars, fmtVars, mergeVars, propVars, backupVars>>

-----------------------------------------------------------------------------
(* fetch_all_categories, src/src/main.py:119-141 *)

\* start_url of fetch_category_data (main.py:133)
StartUrl(lang, category_id) == SubCategoriesUrl(lang, category_id)

\* the list of top-level ids handed over by main (main.py:278-279)
category_ids == [t \in Roots |-> IdOf(t)]

\* a slip: the future's rows replace the list instead of extending it
ExtendList_Assign(list, rows) == rows

\* list.extend (main.py:139)
ExtendList(list, rows) == list \o rows

\* executor.submit for every id (main.py:137); each call of
\* fetch_categories starts with its own empty result list (main.py:67)
Submit ==
    /\ cstate = "init"
    /\ stack' = [t \in Roots |->
                    <<NewFrame(StartUrl(language, category_ids[t]))>>]
    /\ tstate' = [t \in Roots |-> "running"]
    /\ nextFuture' = 1
    /\ cstate' = "collecting"
    /\ UNCHANGED <<result, category_data, fetched, apiVars, fmtVars, mergeVars, propVars, backupVars>>

\* future.result() of a finished walk (main.py:138-139)
Collect ==
    /\ cstate = "collecting"
    /\ nextFuture <= NumRoots
    /\ tstate[nextFuture] = "done"
    /\ category_data' = ExtendList(category_data, result[nextFuture])
    /\ nextFuture' = nextFuture + 1
    /\ UNCHANGED <<stack, result, tstate, cstate, fetched, apiVars, fmtVars, mergeVars, propVars, backupVars>>

\* future.result() re-raises the walk's exception: the for loop is left and
\* the with block waits for the remaining futures (main.py:136-139)
CollectRaises ==
    /\ cstate = "collecting"
    /\ nextFuture <= NumRoots
    /\ tstate[nextFuture] = "raised"
    /\ cstate' = "shutdown"
    /\ UNCHANGED <<stack, result, tstate, category_data, nextFuture,
                   fetched, apiVars, fmtVars, mergeVars, propVars, backupVars>>

AllFinished == \A t \in Roots : tstate[t] \in {"done", "raised"}

\* the exception leaves fetch_all_categories once the executor has shut down
Propagate ==
    /\ cstate = "shutdown"
    /\ AllFinished
    /\ cstate' = "raised"
    /\ UNCHANGED <<stack, result, tstate, category_data, nextFuture,
                   fetched, apiVars, fmtVars, mergeVars, propVars, backupVars>>

\* return category_data (main.py:141)
Return ==
    /\ cstate = "collecting"
    /\ nextFuture > NumRoots
    /\ cstate' = "returned"
    /\ UNCHANGED <<stack, result, tstate, category_data, nextFuture,
                   fetched, apiVars, fmtVars, mergeVars, propVars, backupVars>>

-----------------------------------------------------------------------------
(* Spec: one fetch_all_categories call on every bounded catalog *)

\* forests over 1..n whose roots are Roots, numbered breadth first (every
\* ordered forest has such a numbering; children are listed by number)
RECURSIVE ForestsOver(_)
ForestsOver(n) ==
    IF n <= NumRoots THEN {[r \in 1..n |-> 0]}
    ELSE UNION {{Append(p, q) : q \in {x \in 1..(n - 1) :
                                         n - 1 \in Roots \/ x >= p[n - 1]}}
                : p \in ForestsOver(n - 1)}

Forests == ForestsOver(NumNodes)

\* a fault is <<"fetch", node, kind>> or <<"record", node, missing key>>;
\* only a fetched node can fail, only a listed record can be malformed
PossibleFaults(p) ==
    {<<"fetch", n, k>> : n \in {x \in Nodes : x \in Roots
                                     \/ \E c \in Nodes : p[c] = x},
                         k \in FetchKinds \ {"ok"}}
    \cup {<<"record", n, k>> : n \in Nodes \ Roots, k \in RecordKeys}

RECURSIVE FaultSets(_, _)
FaultSets(p, k) ==
    IF k = 0 THEN {{}}
    ELSE LET smaller == FaultSets(p, k - 1)
         IN smaller \cup
            UNION {{S \cup {f} : f \in {g \in PossibleFaults(p) :
                                    \A h \in S : h[1] # g[1] \/ h[2] # g[2]}}
                   : S \in smaller}

FetchFaultOf(S) ==
    [n \in Nodes |-> IF \E f \in S : f[1] = "fetch" /\ f[2] = n
                     THEN (CHOOSE f \in S : f[1] = "fetch" /\ f[2] = n)[3]
                     ELSE "ok"]

MissingKeyOf(S) ==
    [n \in Nodes |-> IF \E f \in S : f[1] = "record" /\ f[2] = n
                     THEN (CHOOSE f \in S : f[1] = "record" /\ f[2] = n)[3]
                     ELSE "none"]

Init ==
    /\ BackupIdle
    /\ FmtIdle
    /\ MergeIdle
    /\ PropIdle
    /\ parent \in Forests
    /\ pathStyle \in {"self", "parent"}
    /\ language \in {LANGUAGES[i] : i \in 1..Len(LANGUAGES)}
    /\ \E S \in FaultSets(parent, MaxFaults) :
          /\ fetchFault = FetchFaultOf(S)
          /\ missingKey = MissingKeyOf(S)
    /\ stack = [t \in Roots |-> <<>>]
    /\ result = [t \in Roots |-> <<>>]
    /\ tstate = [t \in Roots |-> "pending"]
    /\ category_data = <<>>
    /\ nextFuture = 0
    /\ cstate = "init"
    /\ fetched = [t \in Roots |-> <<>>]

Next ==
    \/ Submit
    \/ \E t \in Roots : GetRaises(t)
    \/ \E t \in Roots : GetFails(t)
    \/ \E t \in Roots : GetOk(t)
    \/ \E t \in Roots : LoopEnd(t)
    \/ \E t \in Roots : LoopKeyError(t)
    \/ \E t \in Roots : LoopRecurse(t)
    \/ \E t \in Roots : LoopLeaf(t)
    \/ Collect
    \/ CollectRaises
    \/ Propagate
    \/ Return

Spec == Init /\ [][Next]_vars

-----------------------------------------------------------------------------
(* pandas: DataFrame, rename, merge *)

NaN == "NaN"

\* A DataFrame: its column labels in order and its rows, each a function
\* from column label to cell.  Row order is kept as the operations below
\* happen to produce it; nothing here depends on it.
EmptyFrame == [columns |-> <<>>, rows |-> <<>>]

SeqToSet(q) == {q[i] : i \in 1..Len(q)}

\* keys of the dicts in order of first appearance
RECURSIVE ColumnsOfDicts(_, _)
ColumnsOfDicts(dicts, cols) ==
    IF dicts = <<>> THEN cols
    ELSE LET d == Head(dicts)
             new == SelectSeq([i \in 1..Len(d) |-> d[i][1]],
                              LAMBDA k : k \notin SeqToSet(cols))
         IN ColumnsOfDicts(Tail(dicts), cols \o new)

\* pd.DataFrame(list of dicts): a key a dict lacks gives a NaN cell
DataFrameOf(dicts) ==
    LET cols == ColumnsOfDicts(dicts, <<>>)
    IN [columns |-> cols,
        rows |-> [i \in 1..Len(dicts) |->
                    [c \in SeqToSet(cols) |->
                        IF DictHas(dicts[i], c) THEN DictGet(dicts[i], c)
                        ELSE NaN]]]

\* df.empty
IsEmptyFrame(df) == Len(df.columns) = 0 \/ Len(df.rows) = 0

\* every column is given the language suffix
SuffixedLabel_AllColumns(col, lang) == col \o "_" \o lang

\* the label of a column after the rename loop (main.py:285-287)
SuffixedLabel(col, lang) ==
    IF EndsWith(col, "Name") THEN col \o "_" \o lang ELSE col

\* the rename loop over df.columns (main.py:285-287)
RenameNameColumns(df, lang) ==
    LET old == df.columns
        new == [i \in 1..Len(old) |-> SuffixedLabel(old[i], lang)]
        oldOf(c) == old[CHOOSE i \in 1..Len(old) : new[i] = c]
    IN [columns |-> new,
        rows |-> [r \in 1..Len(df.rows) |->
                    [c \in SeqToSet(new) |-> df.rows[r][oldOf(c)]]]]

\* the 'on' list of the merge (main.py:298)
MergeKeys == <<"topCategoryId", "subCategoryLevel1Id", "subCategoryLevel2Id",
               "leafCategoryId">>

\* pd.merge raises KeyError when a frame lacks a column of 'on'
MergeRaisesKeyError(left, right, on) ==
    \E i \in 1..Len(on) :
        on[i] \notin SeqToSet(left.columns) \/ on[i] \notin SeqToSet(right.columns)

\* The rows of pd.merge(left, right, on=on, how='outer',
\* suffixes=('', suffix)): one row per matching pair (NaN keys match NaN
\* keys), then the left rows and the right rows without a partner, the
\* other side's columns filled with NaN.
JoinRows(left, right, on, suffix) ==
    LET onSet == SeqToSet(on)
        overlap == (SeqToSet(left.columns) \cap SeqToSet(right.columns)) \ onSet
        rlabel(c) == IF c \in overlap THEN c \o suffix ELSE c
        rcols == SelectSeq(right.columns, LAMBDA c : c \notin onSet)
        outCols == SeqToSet(left.columns) \cup {rlabel(rcols[i]) : i \in 1..Len(rcols)}
        rsrc(c) == rcols[CHOOSE i \in 1..Len(rcols) : rlabel(rcols[i]) = c]
        match(l, r) == \A k \in onSet : left.rows[l][k] = right.rows[r][k]
        pairs == {<<l, r>> \in (1..Len(left.rows)) \X (1..Len(right.rows)) : match(l, r)}
        both(l, r) == [c \in outCols |->
                         IF c \in SeqToSet(left.columns) THEN left.rows[l][c]
                         ELSE right.rows[r][rsrc(c)]]
        leftOnly(l) == [c \in outCols |->
                          IF c \in SeqToSet(left.columns) THEN left.rows[l][c]
                          ELSE NaN]
        rightOnly(r) == [c \in outCols |->
                           IF c \in onSet THEN right.rows[r][c]
                           ELSE IF c \in SeqToSet(left.columns) THEN NaN
                           ELSE right.rows[r][rsrc(c)]]
        RECURSIVE Matched(_, _)
        Matched(l, r) ==
            IF l > Len(left.rows) THEN <<>>
            ELSE IF r > Len(right.rows)
                 THEN (IF \E x \in 1..Len(right.rows) : <<l, x>> \in pairs
                       THEN <<>> ELSE <<leftOnly(l)>>) \o Matched(l + 1, 1)
            ELSE IF <<l, r>> \in pairs
                 THEN <<both(l, r)>> \o Matched(l, r + 1)
                 ELSE Matched(l, r + 1)
        unmatchedRight == SelectSeq([r \in 1..Len(right.rows) |-> r],
                                    LAMBDA r : \A l \in 1..Len(left.rows) :
                                                   <<l, r>> \notin pairs)
    IN Matched(1, 1) \o [i \in 1..Len(unmatchedRight) |-> rightOnly(unmatchedRight[i])]

\* the column labels of the merge: the left labels, then the right labels
\* outside 'on', a label both sides have taking the right suffix
JoinColumns(left, right, on, suffix) ==
    LET onSet == SeqToSet(on)
        overlap == (SeqToSet(left.columns) \cap SeqToSet(right.columns)) \ onSet
        rcols == SelectSeq(right.columns, LAMBDA c : c \notin onSet)
    IN left.columns \o [i \in 1..Len(rcols) |->
                          IF rcols[i] \in overlap THEN rcols[i] \o suffix
                          ELSE rcols[i]]

\* pd.merge(left, right, on=on, how='outer', suffixes=('', suffix))
Merge(left, right, on, suffix) ==
    [columns |-> JoinColumns(left, right, on, suffix),
     rows |-> JoinRows(left, right, on, suffix)]

\* merged_df.loc[:, ~merged_df.columns.duplicated()] (main.py:301): of the
\* columns with one label the first is kept
DropDuplicatedColumns(df) ==
    [columns |-> SelectSeq([i \in 1..Len(df.columns) |->
                               IF \E j \in 1..(i - 1) : df.columns[j] = df.columns[i]
                               THEN "" ELSE df.columns[i]],
                           LAMBDA c : c # ""),
     rows |-> df.rows]

-----------------------------------------------------------------------------
(* main(): per-language frames and their outer join, main.py:276-301 *)

\* The leaf categories the languages' walks can deliver: the path the API
\* reports and the leaf's own id.  Entries 3 and 4 are two leaves directly
\* below category 1 whose reported path stops at the parent; the other paths
\* end at the leaf itself.
LeafCatalog == <<
    [path |-> <<"1", "2", "3", "4">>, leaf |-> "4"],
    [path |-> <<"1", "2", "5">>, leaf |-> "5"],
    [path |-> <<"1">>, leaf |-> "6"],
    [path |-> <<"1">>, leaf |-> "7"],
    [path |-> <<"1", "8">>, leaf |-> "8"],
    [path |-> <<"1", "2", "3", "9">>, leaf |-> "9"],
    [path |-> <<"1", "2", "3", "10", "11">>, leaf |-> "11"] >>

NameIn(id, lang) == "name" \o id \o lang

\* the row fetch_categories emits for catalog entry k in a language
CatalogRow(k, lang) ==
    LET e == LeafCatalog[k]
    IN FormatCategoryPaths(e.path,
                           [i \in 1..Len(e.path) |-> NameIn(e.path[i], lang)],
                           e.leaf, NameIn(e.leaf, lang)).output

Languages == 1..Len(LANGUAGES)

RECURSIVE SubsetsUpTo(_, _)
SubsetsUpTo(S, n) ==
    IF n = 0 THEN {{}}
    ELSE LET smaller == SubsetsUpTo(S, n - 1)
         IN smaller \cup UNION {{T \cup {x} : x \in S \ T} : T \in smaller}

RowsFor(leaves, lang) ==
    LET order == SetToSortedSeq(leaves)
    IN [i \in 1..Len(order) |-> CatalogRow(order[i], lang)]

InitMerge ==
    /\ BackupIdle
    /\ PropIdle
    /\ FmtIdle
    /\ ApiIdle
    /\ WalkIdle
    /\ \E found \in [Languages -> SubsetsUpTo(1..NumLeaves, MaxRows)] :
          language_categories =
              [l \in Languages |-> RowsFor(found[l], LANGUAGES[l])]
    /\ language_dfs = <<>>
    /\ merged_df = EmptyFrame
    /\ mergeIdx = 1
    /\ mergePc = "build"

\* one iteration of the first loop: DataFrame, rename, store (main.py:282-289)
BuildFrame ==
    /\ mergePc = "build"
    /\ mergeIdx <= Len(LANGUAGES)
    /\ language_dfs' = Append(language_dfs,
           RenameNameColumns(DataFrameOf(language_categories[mergeIdx]),
                             LANGUAGES[mergeIdx]))
    /\ mergeIdx' = mergeIdx + 1
    /\ UNCHANGED <<language_categories, merged_df, mergePc,
                   fmtVars, apiVars, walkVars, propVars, backupVars>>

\* merged_df = pd.DataFrame() (main.py:292)
StartMerge ==
    /\ mergePc = "build"
    /\ mergeIdx > Len(LANGUAGES)
    /\ merged_df' = EmptyFrame
    /\ mergeIdx' = 1
    /\ mergePc' = "merge"
    /\ UNCHANGED <<language_categories, language_dfs,
                   fmtVars, apiVars, walkVars, propVars, backupVars>>

InMergeLoop == mergePc = "merge" /\ mergeIdx <= Len(language_dfs)

\* if merged_df.empty: merged_df = df (main.py:294-295)
MergeFirst ==
    /\ InMergeLoop
    /\ IsEmptyFrame(merged_df)
    /\ merged_df' = language_dfs[mergeIdx]
    /\ mergeIdx' = mergeIdx + 1
    /\ UNCHANGED <<language_categories, language_dfs, mergePc,
                   fmtVars, apiVars, walkVars, propVars, backupVars>>

\* else: merged_df = pd.merge(...) (main.py:296-298)
MergeNext ==
    /\ InMergeLoop
    /\ ~IsEmptyFrame(merged_df)
    /\ ~MergeRaisesKeyError(merged_df, language_dfs[mergeIdx], MergeKeys)
    /\ merged_df' = Merge(merged_df, language_dfs[mergeIdx], MergeKeys,
                          "_" \o LANGUAGES[mergeIdx])
    /\ mergeIdx' = mergeIdx + 1
    /\ UNCHANGED <<language_categories, language_dfs, mergePc,
                   fmtVars, apiVars, walkVars, propVars, backupVars>>

\* pd.merge raises KeyError, which main() does not catch (main.py:298)
MergeKeyError ==
    /\ InMergeLoop
    /\ ~IsEmptyFrame(merged_df)
    /\ MergeRaisesKeyError(merged_df, language_dfs[mergeIdx], MergeKeys)
    /\ mergePc' = "raised"
    /\ UNCHANGED <<language_categories, language_dfs, merged_df, mergeIdx,
                   fmtVars, apiVars, walkVars, propVars, backupVars>>

\* after the loop: drop duplicated columns; the table is exported
\* (main.py:301-305)
FinishMerge ==
    /\ mergePc = "merge"
    /\ mergeIdx > Len(language_dfs)
    /\ merged_df' = DropDuplicatedColumns(merged_df)
    /\ mergePc' = "done"
    /\ UNCHANGED <<language_categories, language_dfs, mergeIdx,
                   fmtVars, apiVars, walkVars, propVars, backupVars>>

NextMerge ==
    \/ BuildFrame
    \/ StartMerge
    \/ MergeFirst
    \/ MergeNext
    \/ MergeKeyError
    \/ FinishMerge

SpecMerge == InitMerge /\ [][NextMerge]_vars

-----------------------------------------------------------------------------
(* The property API and flatten_properties, main.py:143-197 *)

\* leaf_category_ids handed to fetch_category_properties (main.py:310-312)
leaf_category_ids == [k \in 1..NumPropLeaves |-> LeafCatalog[k].leaf]

\* the scalar fields of one property of a listProp response, in the order
\* the response carries them
PropertyScalars == <<"categoryId", "propertyId", "propertyText", "saleProp",
                     "required", "inputProp", "enumProp", "hasUnit",
                     "showType", "multiSelect">>

\* The property schemas a leaf category can have: each a list of property
\* kinds.  "plain" has no propertyValues key, "valued" has two values,
\* "novalues" has the key with an empty list.
PropSchemas == << <<>>,
                  <<"plain">>,
                  <<"plain", "valued">>,
                  <<"novalues">> >>

PropertyIdOf(kind) ==
    CASE kind = "plain" -> "p1"
      [] kind = "valued" -> "p2"
      [] kind = "novalues" -> "p3"

\* what the API reports for flag 'required' in a language
RequiredIn(l) ==
    IF deviant.language = l /\ deviant.kind = "flag" THEN "true" ELSE "false"

\* one value of a property as the API reports it in a language
PropertyValue(i, lang) ==
    << <<"valueId", "v" \o ToString(i)>>,
       <<"valueText", "v" \o ToString(i) \o lang>> >>

\* one property of a listProp response: its scalar fields, whether it has a
\* propertyValues key, and the list under that key
PropertyItem(kind, categoryId, l) ==
    [fields |-> [i \in 1..Len(PropertyScalars) |->
                   <<PropertyScalars[i],
                     CASE PropertyScalars[i] = "categoryId" -> categoryId
                       [] PropertyScalars[i] = "propertyId" -> PropertyIdOf(kind)
                       [] PropertyScalars[i] = "propertyText" ->
                              PropertyIdOf(kind) \o "text" \o LANGUAGES[l]
                       [] PropertyScalars[i] = "required" -> RequiredIn(l)
                       [] PropertyScalars[i] = "showType" -> "list"
                       [] OTHER -> "false">>],
     hasValues |-> kind # "plain",
     propertyValues |-> IF kind = "valued"
                        THEN [i \in 1..2 |-> PropertyValue(i, LANGUAGES[l])]
                        ELSE <<>>]

\* requests.get(url, params) for leaf k in language l (main.py:190): the
\* status code and the list under 'data' of the decoded body.  The deviant
\* language's response for the first leaf can be an error status.
ListProp(l, k) ==
    LET schema == PropSchemas[propSchema[k]]
        hit == deviant.language = l /\ k = 1
    IN [status_code |-> IF hit /\ deviant.kind = "http_error" THEN 500 ELSE 200,
        data |-> [i \in 1..Len(schema) |->
                    PropertyItem(schema[i], leaf_category_ids[k], l)]]

\* prop_data.update(...) (main.py:152-154)
RECURSIVE DictUpdate(_, _)
DictUpdate(d, e) ==
    IF e = <<>> THEN d
    ELSE DictUpdate(DictSet(d, Head(e)[1], Head(e)[2]), Tail(e))

\* the records appended for one item of the list (main.py:147-160)
FlattenItem(item) ==
    IF item.hasValues
    THEN [i \in 1..Len(item.propertyValues) |->
            DictUpdate(item.fields, item.propertyValues[i])]
    ELSE <<item.fields>>

\* flatten_properties(data) for a list (main.py:143-160, 176)
RECURSIVE flatten_properties(_)
flatten_properties(data) ==
    IF data = <<>> THEN <<>>
    ELSE FlattenItem(Head(data)) \o flatten_properties(Tail(data))

\* a leaf without records is given one placeholder record
PropertiesOfLeaf_Placeholder(l, k) ==
    IF ListProp(l, k).status_code = 200 /\ ListProp(l, k).data # <<>>
    THEN flatten_properties(ListProp(l, k).data)
    ELSE << << <<"categoryId", leaf_category_ids[k]>> >> >>

\* what one iteration of the loop over leaf ids adds to 'properties'
\* (main.py:190-196)
PropertiesOfLeaf(l, k) ==
    LET response == ListProp(l, k)
    IN IF response.status_code = 200
       THEN flatten_properties(response.data)
       ELSE <<>>

\* the list fetch_properties_for_language returns for the leaves of
\* positions 'ks' (main.py:178-197)
RECURSIVE fetch_properties_for_language(_, _)
fetch_properties_for_language(l, ks) ==
    IF ks = <<>> THEN <<>>
    ELSE PropertiesOfLeaf(l, Head(ks)) \o fetch_properties_for_language(l, Tail(ks))

\* the call logs an error for a response that is not 200 (main.py:196)
FetchLogsError(l, ks) ==
    \E i \in 1..Len(ks) : ListProp(l, ks[i]).status_code # 200

AllLeaves == [k \in 1..NumPropLeaves |-> k]

-----------------------------------------------------------------------------
(* fetch_category_properties, main.py:199-229 *)

\* retry_count = 3 (main.py:202)
InitialRetryCount == 3

\* which submission for its language a future is: the first fetch or a retry
AttemptOf(fs, f) ==
    Cardinality({g \in 1..f : fs[g].language = fs[f].language})

NewFuture(l) == [language |-> l, state |-> "running", result |-> <<>>]

\* the label of a column after the rename loop (main.py:213-215)
TextLabel(col, lang) ==
    IF EndsWith(col, "Text") THEN col \o "_" \o lang ELSE col

\* the rename loop over properties_df.columns (main.py:213-215)
RenameTextColumns(df, lang) ==
    LET old == df.columns
        new == [i \in 1..Len(old) |-> TextLabel(old[i], lang)]
        oldOf(c) == old[CHOOSE i \in 1..Len(old) : new[i] = c]
    IN [columns |-> new,
        rows |-> [r \in 1..Len(df.rows) |->
                    [c \in SeqToSet(new) |-> df.rows[r][oldOf(c)]]]]

\* executor.shutdown(wait=False): the block is left at once
ShutdownWaits_NoWait(fs) == TRUE

\* leaving the 'with' block is executor.shutdown(wait=True): it returns when
\* no submitted call is still running (main.py:205)
ShutdownWaits(fs) == \A f \in 1..Len(fs) : fs[f].state # "running"

\* a submitted fetch_properties_for_language call returns its list
FetchReturns(f) ==
    /\ f \in 1..Len(future_to_language)
    /\ future_to_language[f].state = "running"
    /\ AttemptOf(future_to_language, f) > raising[future_to_language[f].language]
    /\ future_to_language' = [future_to_language EXCEPT
          ![f].state = "finished",
          ![f].result = fetch_properties_for_language(
                            future_to_language[f].language, AllLeaves)]
    /\ prop_log' = IF FetchLogsError(future_to_language[f].language, AllLeaves)
                   THEN prop_log \cup {"fetch_failed"}
                   ELSE prop_log
    /\ UNCHANGED <<propSchema, raising, deviant, fs_pending, retry_count,
                   prop_language_dfs, prop_merged_df, propPc,
                   fmtVars, apiVars, walkVars, mergeVars,
                   backupVars>>

\* a submitted call ends with the exception requests.get raised (main.py:190)
FetchRaises(f) ==
    /\ f \in 1..Len(future_to_language)
    /\ future_to_language[f].state = "running"
    /\ AttemptOf(future_to_language, f) <= raising[future_to_language[f].language]
    /\ future_to_language' = [future_to_language EXCEPT ![f].state = "raised"]
    /\ UNCHANGED <<propSchema, raising, deviant, fs_pending, retry_count,
                   prop_language_dfs, prop_log, prop_merged_df, propPc,
                   fmtVars, apiVars, walkVars, mergeVars,
                   backupVars>>

\* one call per language is submitted and as_completed takes the set of
\* futures it will yield (main.py:205-208)
SubmitAll ==
    /\ propPc = "submit"
    /\ future_to_language' = [l \in Languages |-> NewFuture(l)]
    /\ fs_pending' = Languages
    /\ propPc' = "iterate"
    /\ UNCHANGED <<propSchema, raising, deviant, retry_count,
                   prop_language_dfs, prop_log, prop_merged_df,
                   fmtVars, apiVars, walkVars, mergeVars,
                   backupVars>>

\* as_completed yields a future whose call returned: the try body
\* (main.py:208-216)
StoreResult(f) ==
    /\ propPc = "iterate"
    /\ f \in fs_pending
    /\ future_to_language[f].state = "finished"
    /\ LET l == future_to_language[f].language
           properties_df == RenameTextColumns(
                                DataFrameOf(future_to_language[f].result),
                                LANGUAGES[l])
       IN prop_language_dfs' = DictSet(prop_language_dfs, LANGUAGES[l],
                                       properties_df)
    /\ fs_pending' = fs_pending \ {f}
    /\ UNCHANGED <<propSchema, raising, deviant, future_to_language,
                   retry_count, prop_log, prop_merged_df, propPc,
                   fmtVars, apiVars, walkVars, mergeVars,
                   backupVars>>

\* as_completed yields a future whose call raised: the except body
\* (main.py:208-210, 217-225).  The future submitted here is added to the
\* dict, not to the set as_completed iterates.
HandleException(f) ==
    /\ propPc = "iterate"
    /\ f \in fs_pending
    /\ future_to_language[f].state = "raised"
    /\ IF retry_count > 0
       THEN /\ retry_count' = retry_count - 1
            /\ future_to_language' =
                   Append(future_to_language,
                          NewFuture(future_to_language[f].language))
            /\ prop_log' = prop_log \cup {"exception", "retrying"}
       ELSE /\ prop_log' = prop_log \cup {"exception", "retry_limit_exceeded"}
            /\ UNCHANGED <<retry_count, future_to_language>>
    /\ fs_pending' = fs_pending \ {f}
    /\ UNCHANGED <<propSchema, raising, deviant, prop_language_dfs,
                   prop_merged_df, propPc,
                   fmtVars, apiVars, walkVars, mergeVars,
                   backupVars>>

\* as_completed has yielded every future of its set: the loop ends
\* (main.py:208)
LoopExhausted ==
    /\ propPc = "iterate"
    /\ fs_pending = {}
    /\ propPc' = "exit"
    /\ UNCHANGED <<propSchema, raising, deviant, future_to_language,
                   fs_pending, retry_count, prop_language_dfs, prop_log,
                   prop_merged_df, fmtVars, apiVars, walkVars, mergeVars,
                   backupVars>>

\* the 'with' block is left and the dict returned (main.py:205, 226-229)
ExecutorExit ==
    /\ propPc = "exit"
    /\ ShutdownWaits(future_to_language)
    /\ propPc' = "returned"
    /\ UNCHANGED <<propSchema, raising, deviant, future_to_language,
                   fs_pending, retry_count, prop_language_dfs, prop_log,
                   prop_merged_df, fmtVars, apiVars, walkVars, mergeVars,
                   backupVars>>

-----------------------------------------------------------------------------
(* merge_category_properties, main.py:231-265 *)

\* the 'on' list of the merge (main.py:243)
PropMergeKeys == <<"categoryId", "valueId", "propertyId">>

\* column_order before the loop (main.py:246)
BaseColumnOrder == <<"categoryId", "valueId", "propertyId", "saleProp",
                     "required", "inputProp", "enumProp", "hasUnit",
                     "showType", "multiSelect">>

\* dfs: the dict's values in insertion order (main.py:233-237)
DictValues(d) == [i \in 1..Len(d) |-> d[i][2]]

\* the loop over dfs[1:] (main.py:241-243): the frame, or the exception
\* that ends the loop.  The suffix argument reads df.columns[1] before
\* pd.merge is called.
RECURSIVE PropMergeLoop(_, _, _)
PropMergeLoop(merged, dfs, i) ==
    IF i > Len(dfs) THEN [exc |-> "none", df |-> merged]
    ELSE IF Len(dfs[i].columns) < 2 THEN [exc |-> "IndexError", df |-> merged]
    ELSE IF MergeRaisesKeyError(merged, dfs[i], PropMergeKeys)
         THEN [exc |-> "KeyError", df |-> merged]
    ELSE PropMergeLoop(Merge(merged, dfs[i], PropMergeKeys,
                             "_" \o dfs[i].columns[2]),
                       dfs, i + 1)

HasLanguageSuffix(col) ==
    EndsWith(col, "_en") \/ EndsWith(col, "_de") \/ EndsWith(col, "_fr")

\* prefix_col_name of a column with a language suffix (main.py:250-252)
PrefixColName(col) == SubSeq(col, 1, Len(col) - 3) \o "_"

\* the two loops that extend column_order, over the columns of all dfs in
\* order (main.py:247-258)
RECURSIVE ColumnOrderLoop(_, _, _)
ColumnOrderLoop(column_order, cols, mergedCols) ==
    IF cols = <<>> THEN column_order
    ELSE LET col == Head(cols)
             withPrefix ==
                 IF /\ PrefixColName(col) \notin SeqToSet(column_order)
                    /\ PrefixColName(col) \in mergedCols
                 THEN Append(column_order, PrefixColName(col))
                 ELSE column_order
         IN IF HasLanguageSuffix(col)
            THEN ColumnOrderLoop(Append(withPrefix, col), Tail(cols), mergedCols)
            ELSE ColumnOrderLoop(column_order, Tail(cols), mergedCols)

RECURSIVE ConcatColumns(_)
ConcatColumns(dfs) ==
    IF dfs = <<>> THEN <<>> ELSE Head(dfs).columns \o ConcatColumns(Tail(dfs))

\* logging.warning(...) is reached for some column (main.py:256)
WarnsPrefixMissing(dfs, mergedCols) ==
    \E i \in 1..Len(ConcatColumns(dfs)) :
        LET col == ConcatColumns(dfs)[i]
        IN /\ HasLanguageSuffix(col)
           /\ PrefixColName(col) \notin mergedCols

\* merged_df[column_order] (main.py:260): KeyError for a label the frame
\* lacks; a label the frame has more than once selects each such column
SelectRaisesKeyError(df, column_order) ==
    \E i \in 1..Len(column_order) : column_order[i] \notin SeqToSet(df.columns)

RECURSIVE SelectedLabels(_, _)
SelectedLabels(dfColumns, column_order) ==
    IF column_order = <<>> THEN <<>>
    ELSE SelectSeq(dfColumns, LAMBDA c : c = Head(column_order))
             \o SelectedLabels(dfColumns, Tail(column_order))

SelectColumns(df, column_order) ==
    [columns |-> SelectedLabels(df.columns, column_order),
     rows |-> [r \in 1..Len(df.rows) |->
                 [c \in SeqToSet(column_order) |-> df.rows[r][c]]]]

\* merge_category_properties(prop_language_dfs) up to the export
\* (main.py:231-260): the exported frame, or the exception that ends the call
merge_category_properties(dict) ==
    LET dfs == DictValues(dict)
    IN IF dfs = <<>> THEN [exc |-> "IndexError", df |-> EmptyFrame]
       ELSE LET looped == PropMergeLoop(dfs[1], dfs, 2)
                column_order == ColumnOrderLoop(BaseColumnOrder,
                                                ConcatColumns(dfs),
                                                SeqToSet(looped.df.columns))
            IN IF looped.exc # "none" THEN looped
               ELSE IF SelectRaisesKeyError(looped.df, column_order)
                    THEN [exc |-> "KeyError", df |-> looped.df]
               ELSE [exc |-> "none", df |-> SelectColumns(looped.df, column_order)]

\* whether the call logs the warning of main.py:256
merge_warns(dict) ==
    LET dfs == DictValues(dict)
    IN WarnsPrefixMissing(dfs, SeqToSet(PropMergeLoop(dfs[1], dfs, 2).df.columns))

\* main() calls merge_category_properties, which exports the table
\* (main.py:316, 231-265)
MergeReturns ==
    /\ propPc = "returned"
    /\ LET r == merge_category_properties(prop_language_dfs)
       IN /\ r.exc = "none"
          /\ prop_merged_df' = r.df
          /\ prop_log' =
               IF merge_warns(prop_language_dfs)
               THEN prop_log \cup {"prefix_not_found", "uploaded"}
               ELSE prop_log \cup {"uploaded"}
    /\ propPc' = "merged"
    /\ UNCHANGED <<propSchema, raising, deviant, future_to_language,
                   fs_pending, retry_count, prop_language_dfs,
                   fmtVars, apiVars, walkVars, mergeVars,
                   backupVars>>

\* merge_category_properties ends with an exception nothing catches
\* (main.py:240, 243, 260)
MergeRaises ==
    /\ propPc = "returned"
    /\ LET r == merge_category_properties(prop_language_dfs)
       IN /\ r.exc # "none"
          /\ prop_merged_df' = [columns |-> <<r.exc>>, rows |-> <<>>]
    /\ propPc' = "merge_raised"
    /\ UNCHANGED <<propSchema, raising, deviant, future_to_language,
                   fs_pending, retry_count, prop_language_dfs, prop_log,
                   fmtVars, apiVars, walkVars, mergeVars,
                   backupVars>>

\* as many raising fetches as the retry budget allows attempts: every
\* attempt for the language raises
AlwaysRaises == InitialRetryCount + 1

\* per language, how many of its first fetches raise: up to MaxRaises each,
\* or one language whose every fetch raises
RaisingPatterns ==
    [Languages -> 0..MaxRaises]
        \cup {[l \in Languages |-> IF l = a THEN AlwaysRaises ELSE 0] : a \in Languages}

DeviantKinds == {"flag", "http_error"}

\* the language whose responses can differ from the others'
DeviantLanguages == {l \in Languages : LANGUAGES[l] = "de"}

InitProps ==
    /\ BackupIdle
    /\ FmtIdle
    /\ ApiIdle
    /\ WalkIdle
    /\ MergeIdle
    /\ propSchema \in [1..NumPropLeaves -> 1..Len(PropSchemas)]
    /\ raising \in RaisingPatterns
    /\ deviant \in {[language |-> 0, kind |-> "none"]}
                     \cup [language : DeviantLanguages, kind : DeviantKinds]
    /\ future_to_language = <<>>
    /\ fs_pending = {}
    /\ retry_count = InitialRetryCount
    /\ prop_language_dfs = EmptyDict
    /\ prop_log = {}
    /\ prop_merged_df = EmptyFrame
    /\ propPc = "submit"

NextProps ==
    \/ SubmitAll
    \/ \E f \in 1..Len(future_to_language) : FetchReturns(f)
    \/ \E f \in 1..Len(future_to_language) : FetchRaises(f)
    \/ \E f \in fs_pending : StoreResult(f)
    \/ \E f \in fs_pending : HandleException(f)
    \/ LoopExhausted
    \/ ExecutorExit
    \/ MergeReturns
    \/ MergeRaises

SpecProps == InitProps /\ [][NextProps]_vars

-----------------------------------------------------------------------------
(* Claims about the Path Formatter (checked under SpecFormat) *)

FmtEqualLength == Len(categoryIdPath) = Len(categoryNamePath)

\* C1: for every id/name path of equal length N >= 1 and every explicit leaf
\* pair, the call returns a mapping with leafCategoryId = leafId and
\* leafCategoryName = leafName.  (Fails in the code for N = 1.)
C1_LeafIsExplicitPair ==
    (fmtPc # "call" /\ FmtEqualLength /\ Len(categoryIdPath) >= 1)
        => /\ fmtPc = "returned"
           /\ DictHas(fmtOut, "leafCategoryId")
           /\ DictHas(fmtOut, "leafCategoryName")
           /\ DictGet(fmtOut, "leafCategoryId") = finalCategoryId
           /\ DictGet(fmtOut, "leafCategoryName") = finalCategoryName

\* C2: whenever the path lengths differ or the paths are empty, the call
\* fails with MalformedPathError and returns no mapping.  (The code has no
\* such error: it returns a mapping or raises IndexError.)
C2_MalformedPathError ==
    (fmtPc # "call" /\ (~FmtEqualLength \/ Len(categoryIdPath) = 0))
        => (fmtPc = "raised" /\ fmtOut = "MalformedPathError")

SubLevelKeys(n) ==
    {SubLevelIdKey(i) : i \in 1..n} \cup {SubLevelNameKey(i) : i \in 1..n}

\* C3: for equal-length paths with N >= 2 the output has topCategoryId /
\* topCategoryName from index 0, subCategoryLevel{i}Id/Name = idPath[i] /
\* namePath[i] (0-based) for each i in 1..N-2, and no other sub-level key.
C3_TopAndSubLevels ==
    (fmtPc # "call" /\ FmtEqualLength /\ Len(categoryIdPath) >= 2)
        => /\ fmtPc = "returned"
           /\ DictHas(fmtOut, "topCategoryId")
           /\ DictGet(fmtOut, "topCategoryId") = categoryIdPath[1]
           /\ DictHas(fmtOut, "topCategoryName")
           /\ DictGet(fmtOut, "topCategoryName") = categoryNamePath[1]
           /\ \A i \in 1..(Len(categoryIdPath) - 2) :
                /\ DictHas(fmtOut, SubLevelIdKey(i))
                /\ DictGet(fmtOut, SubLevelIdKey(i)) = categoryIdPath[i + 1]
                /\ DictHas(fmtOut, SubLevelNameKey(i))
                /\ DictGet(fmtOut, SubLevelNameKey(i)) = categoryNamePath[i + 1]
           /\ DictKeys(fmtOut) \ {"topCategoryId", "topCategoryName",
                                  "leafCategoryId", "leafCategoryName"}
                = SubLevelKeys(Len(categoryIdPath) - 2)

\* C3 witness: a returned mapping for a path with two sub-levels
C3_Witness ==
    /\ fmtPc = "returned"
    /\ FmtEqualLength
    /\ Len(categoryIdPath) = 4
    /\ DictHas(fmtOut, SubLevelIdKey(2))

-----------------------------------------------------------------------------
(* Claims about the Tree Walker and the Fan-out Coordinator (under Spec) *)

Count(seq, x) == Cardinality({i \in 1..Len(seq) : seq[i] = x})

\* the two lists hold the same rows the same number of times
SameRows(a, b) ==
    /\ Len(a) = Len(b)
    /\ \A i \in 1..Len(a) : Count(a, a[i]) = Count(b, a[i])

Finished(t) == tstate[t] \in {"done", "raised"}

LeavesUnder(r) == {n \in Nodes : IsLeaf(n) /\ RootOf(n) = r}

\* the nodes whose children are fetched on the way from the root to n
Ancestors(n) == {PathTo(n)[i] : i \in 1..(Len(PathTo(n)) - 1)}

NoRecordFault == \A n \in Nodes : missingKey[n] = "none"
NoFault == NoRecordFault /\ \A n \in Nodes : fetchFault[n] = "ok"

\* the row the formatter makes of leaf n's (complete) record
RowOf(n) ==
    LET rec == ChildRecord(n, language)
    IN FormatCategoryPaths(DictGet(rec, "categoryIdPath"),
                           DictGet(rec, "categoryNamePath"),
                           DictGet(rec, "categoryId"),
                           DictGet(rec, "categoryName")).output

RowsOf(leaves) == [i \in 1..Len(leaves) |-> RowOf(leaves[i])]

\* C4: on a tree where every fetch succeeds, the walk from a root returns
\* exactly one row per reachable leaf, each with the root's id as
\* topCategoryId and the leaf's own id as leafCategoryId.  (Fails for a leaf
\* directly below the root whose reported path stops at its parent: C1.)
C4_OneRowPerLeaf ==
    \A t \in Roots :
        (Finished(t) /\ NoFault)
            => /\ tstate[t] = "done"
               /\ Len(result[t]) = Cardinality(LeavesUnder(t))
               /\ \A n \in LeavesUnder(t) :
                    Cardinality({i \in 1..Len(result[t]) :
                        /\ DictHas(result[t][i], "leafCategoryId")
                        /\ DictGet(result[t][i], "leafCategoryId") = IdOf(n)
                        /\ DictGet(result[t][i], "topCategoryId") = IdOf(t)})
                      = 1

FetchFailed(n) == fetchFault[n] \in {"http_error", "bad_json", "no_data_key"}

\* the leaves under root r that are not below a node whose fetch failed
LeavesNotBelowFailure(r) ==
    {n \in LeavesUnder(r) : \A a \in Ancestors(n) : ~FetchFailed(a)}

\* C5: when fetches fail with a non-success status, an undecodable payload
\* or a payload without 'data', each failing node is treated as having no
\* children and the walk returns the rows of exactly the leaves that are not
\* below a failing node, later siblings of the failing node included.
C5_FailureIsolation ==
    \A t \in Roots :
        (Finished(t) /\ NoRecordFault
                     /\ \A n \in Nodes : fetchFault[n] # "network_error")
            => /\ tstate[t] = "done"
               /\ SameRows(result[t],
                           RowsOf(SetToSortedSeq(LeavesNotBelowFailure(t))))

\* C5 witness: a finished walk in which the fetch of X failed and the row of
\* a leaf sibling listed after X was returned
C5_Witness ==
    \E t \in Roots, x \in Nodes, n \in Nodes :
        /\ tstate[t] = "done"
        /\ NoRecordFault
        /\ FetchFailed(x)
        /\ Children(x) # {}
        /\ parent[x] # 0
        /\ RootOf(x) = t
        /\ parent[n] = parent[x]
        /\ n > x
        /\ IsLeaf(n)
        /\ Count(result[t], RowOf(n)) = 1

\* C6: a network error (requests.get raising) while fetching one node is
\* recovered locally: the walk completes and returns the rows of the leaves
\* that are not below the failing node.  (In the code nothing catches it.)
C6_NetworkErrorRecovered ==
    \A t \in Roots :
        (/\ Finished(t)
         /\ NoRecordFault
         /\ \E x \in Nodes : RootOf(x) = t /\ fetchFault[x] = "network_error")
            => /\ tstate[t] = "done"
               /\ \A n \in LeavesUnder(t) :
                    (\A a \in Ancestors(n) : fetchFault[a] = "ok")
                        => Count(result[t], RowOf(n)) >= 1

CoordinatorFinished == cstate \in {"returned", "raised"}

\* C7: if the walk of one root fails (its root-level fetch returns a
\* non-success status or raises), the rows of the walks of all other roots
\* are still returned.  (A raising walk makes future.result() raise.)
C7_RootFailureIsolated ==
    (/\ CoordinatorFinished
     /\ \E r \in Roots : fetchFault[r] \in {"http_error", "network_error"})
        => /\ cstate = "returned"
           /\ \A t \in Roots :
                tstate[t] = "done"
                    => \A i \in 1..Len(result[t]) :
                         Count(category_data, result[t][i])
                             >= Count(result[t], result[t][i])

RECURSIVE ConcatResults(_)
ConcatResults(n) ==
    IF n = 0 THEN <<>> ELSE ConcatResults(n - 1) \o result[n]

\* C8: when all walks complete, the returned list is exactly the multiset
\* union of the per-root walk results, for every interleaving of the workers.
C8_ConcatenationOfWalks ==
    cstate = "returned"
        => /\ \A t \in Roots : tstate[t] = "done"
           /\ SameRows(category_data, ConcatResults(NumRoots))

\* C8 witness: the coordinator returned rows coming from two different roots
C8_Witness ==
    /\ cstate = "returned"
    /\ \E t1, t2 \in Roots :
          /\ t1 # t2
          /\ Len(result[t1]) >= 1
          /\ Len(result[t2]) >= 1
    /\ Len(category_data) >= 2

-----------------------------------------------------------------------------
(* Claims about the Multi-Language Reconciler (checked under SpecMerge) *)

MergeFinished == mergePc \in {"done", "raised"}

\* the id columns of the input rows: the hierarchy key columns
IdColumns ==
    {c \in UNION {UNION {DictKeys(language_categories[l][i])
                           : i \in 1..Len(language_categories[l])}
                    : l \in Languages} : EndsWith(c, "Id")}

\* hierarchy-id tuple of an input row / of a row of the unified table
KeyOfDict(d) == [c \in IdColumns |-> IF DictHas(d, c) THEN DictGet(d, c) ELSE NaN]
KeyOfRow(row) == [c \in IdColumns |-> IF c \in DOMAIN row THEN row[c] ELSE NaN]

KeysOf(l) ==
    {KeyOfDict(language_categories[l][i]) : i \in 1..Len(language_categories[l])}

AllKeys == UNION {KeysOf(l) : l \in Languages}

\* no language's list holds two rows with the same hierarchy-id tuple
NoDuplicateInput ==
    \A l \in Languages : Cardinality(KeysOf(l)) = Len(language_categories[l])

NameColumnsOf(l) ==
    {c \in SeqToSet(merged_df.columns) : EndsWith(c, "Name_" \o LANGUAGES[l])}

\* C9: the unified table is the outer join of the languages' rows on the
\* hierarchy key: one row per key of any language (3 rows for {K1, K2} and
\* {K2, K3}); a row has a language's names when that language produced its
\* key, and null name cells for a language only when it did not.  (The code
\* raises KeyError when a language's table lacks one of the four hard-coded
\* key columns.)
C9_OuterJoin ==
    (/\ MergeFinished
     /\ NoDuplicateInput
     /\ \A l \in Languages : language_categories[l] # <<>>)
        => /\ mergePc = "done"
           /\ Len(merged_df.rows) = Cardinality(AllKeys)
           /\ \A r \in 1..Len(merged_df.rows), l \in Languages :
                LET row == merged_df.rows[r]
                    top == "topCategoryName_" \o LANGUAGES[l]
                IN IF KeyOfRow(row) \in KeysOf(l)
                   THEN top \in DOMAIN row /\ row[top] # NaN
                   ELSE \A c \in NameColumnsOf(l) : row[c] = NaN

\* C10: no two rows of the unified table have the same hierarchy-id tuple;
\* a tuple present in several languages, or more than once in one language's
\* list, appears as exactly one row.  (The merge keeps repeated rows.)
C10_KeyUniqueness ==
    mergePc = "done"
        => /\ \A i, j \in 1..Len(merged_df.rows) :
                i # j => KeyOfRow(merged_df.rows[i]) # KeyOfRow(merged_df.rows[j])
           /\ \A k \in AllKeys :
                \E i \in 1..Len(merged_df.rows) : KeyOfRow(merged_df.rows[i]) = k

AllLanguagesHaveRows == \A l \in Languages : language_categories[l] # <<>>

Occurrences(seq, x) == Cardinality({i \in 1..Len(seq) : seq[i] = x})

\* C11: the join is on the full set of id columns present in any language's
\* table, whatever the depth of the trees: the merge completes and every id
\* column (top, every sub-level, leaf) appears once and unsuffixed in the
\* unified table.  (The code joins on four fixed columns: a frame without
\* one of them raises KeyError, a deeper id column is suffixed per language.)
C11_JoinOnAllIdColumns ==
    (MergeFinished /\ AllLanguagesHaveRows)
        => /\ mergePc = "done"
           /\ \A c \in IdColumns :
                /\ Occurrences(merged_df.columns, c) = 1
                /\ \A l \in Languages :
                     (c \o "_" \o LANGUAGES[l]) \notin SeqToSet(merged_df.columns)

\* the longest path of the catalog bounds the sub-level numbers
CatalogLevels ==
    1..(CHOOSE n \in 0..100 :
          /\ \E k \in 1..Len(LeafCatalog) : Len(LeafCatalog[k].path) = n
          /\ \A k \in 1..Len(LeafCatalog) : Len(LeafCatalog[k].path) <= n)

\* an id column followed by its name column in each language
ColumnGroup(stem) ==
    <<stem \o "Id">> \o [l \in Languages |-> stem \o "Name_" \o LANGUAGES[l]]

RECURSIVE SubLevelGroups(_)
SubLevelGroups(n) ==
    IF n = 0 THEN <<>>
    ELSE SubLevelGroups(n - 1) \o ColumnGroup("subCategoryLevel" \o ToString(n))

\* the contractual column order (spec 4.4)
ContractColumnOrder ==
    ColumnGroup("topCategory")
        \o SubLevelGroups(Cardinality(CatalogLevels))
        \o ColumnGroup("leafCategory")

\* C12: the columns of the unified table come in the order top id, top name
\* per language, each sub-level's id and names in level order, leaf id and
\* names.  (The merge appends each later language's name columns after all
\* columns of the earlier ones.)
C12_ColumnOrder ==
    mergePc = "done"
        => merged_df.columns =
               SelectSeq(ContractColumnOrder,
                         LAMBDA c : c \in SeqToSet(merged_df.columns))

-----------------------------------------------------------------------------
(* Claims about the property pipeline (checked under SpecProps) *)

FinishedFutures ==
    {f \in 1..Len(future_to_language) : future_to_language[f].state = "finished"}

\* the records of a returned list that belong to one property of one leaf
RecordsFor(records, item) ==
    SelectSeq(records,
              LAMBDA r : /\ DictGet(r, "categoryId") = DictGet(item.fields, "categoryId")
                         /\ DictGet(r, "propertyId") = DictGet(item.fields, "propertyId"))

CarriesAll(r, d) ==
    \A i \in 1..Len(d) : DictHas(r, d[i][1]) /\ DictGet(r, d[i][1]) = d[i][2]

NullValue(r) == ~DictHas(r, "valueId") /\ ~DictHas(r, "valueText")

\* C14: in every list a fetch returned, each property of a leaf whose
\* response was 200 has one record per value when it has N >= 1 values,
\* each with the property's scalar fields and that value's fields, and
\* exactly one record with null valueId/valueText when it has no values
\* (propertyValues absent or empty).
C14_OneRecordPerValue ==
    \A f \in FinishedFutures :
        \A k \in 1..NumPropLeaves :
            LET l == future_to_language[f].language
                response == ListProp(l, k)
            IN response.status_code = 200 =>
                 \A i \in 1..Len(response.data) :
                     LET item == response.data[i]
                         N == Len(item.propertyValues)
                         recs == RecordsFor(future_to_language[f].result, item)
                     IN /\ Len(recs) = (IF N >= 1 THEN N ELSE 1)
                        /\ \A j \in 1..Len(recs) : CarriesAll(recs[j], item.fields)
                        /\ N >= 1 => \A j \in 1..Len(recs) :
                                         CarriesAll(recs[j], item.propertyValues[j])
                        /\ N = 0 => \A j \in 1..Len(recs) : NullValue(recs[j])

\* a leaf whose response is 200 with an empty property list
EmptySchema(l, k) ==
    ListProp(l, k).status_code = 200 /\ ListProp(l, k).data = <<>>

LeavesWithProperties(l) == SelectSeq(AllLeaves, LAMBDA k : ~EmptySchema(l, k))

\* C15: the list a fetch returned holds no record of a leaf with an empty
\* schema, and is exactly the records of the other leaves, in order.
C15_EmptySchemaNoRecord ==
    \A f \in FinishedFutures :
        LET l == future_to_language[f].language
            records == future_to_language[f].result
        IN /\ \A k \in 1..NumPropLeaves :
                EmptySchema(l, k) =>
                    \A j \in 1..Len(records) :
                        DictGet(records[j], "categoryId") # leaf_category_ids[k]
           /\ records = fetch_properties_for_language(l, LeavesWithProperties(l))

C15_Witness ==
    \E f \in FinishedFutures :
        LET l == future_to_language[f].language
        IN /\ \E k \in 1..NumPropLeaves : EmptySchema(l, k)
           /\ \E k \in 1..NumPropLeaves : ~EmptySchema(l, k)
           /\ Len(future_to_language[f].result) = 3

\* fetch_category_properties has returned
PropsReturned == propPc \in {"returned", "merged", "merge_raised"}

PropsMerged == propPc \in {"merged", "merge_raised"}

\* the futures submitted for a language, in order
FuturesOf(l) ==
    SelectSeq([f \in 1..Len(future_to_language) |-> f],
              LAMBDA f : future_to_language[f].language = l)

\* the first fetch of the language raised and the fetch submitted again for
\* it returned its list
RetrySucceeded(l) ==
    /\ Len(FuturesOf(l)) >= 2
    /\ future_to_language[FuturesOf(l)[1]].state = "raised"
    /\ future_to_language[FuturesOf(l)[2]].state = "finished"

Present(l) == DictHas(prop_language_dfs, LANGUAGES[l])

\* C16: once fetch_category_properties has returned, a language whose
\* first fetch raised and whose re-submitted fetch succeeded has its table
\* in the returned dictionary.
C16_RetriedLanguagePresent ==
    PropsReturned => \A l \in Languages : RetrySucceeded(l) => Present(l)

\* the table of a language built from the complete list of its fetch
TableOf(l) ==
    RenameTextColumns(DataFrameOf(fetch_properties_for_language(l, AllLeaves)),
                      LANGUAGES[l])

\* the dictionary holding the tables of the languages of 'ls', inserted in
\* that order
RECURSIVE DictOfLanguages(_)
DictOfLanguages(ls) ==
    IF ls = <<>> THEN EmptyDict
    ELSE DictSet(DictOfLanguages(SubSeq(ls, 1, Len(ls) - 1)),
                 LANGUAGES[ls[Len(ls)]], TableOf(ls[Len(ls)]))

AllLanguages == [l \in Languages |-> l]

\* the responses are such that the three languages' tables merge
ResponsesMerge == merge_category_properties(DictOfLanguages(AllLanguages)).exc = "none"

TextColumnsOf(l) ==
    SelectSeq(TableOf(l).columns, LAMBDA c : EndsWith(c, "_" \o LANGUAGES[l]))

\* C17: when some languages' fetches failed, all of them included, and the
\* responses of the languages are such that their tables merge,
\* merge_category_properties completes and exports a table that holds the text
\* columns of exactly the languages that did not fail.
C17_FailedLanguagesAbsent ==
    (PropsMerged /\ ResponsesMerge /\ \E l \in Languages : ~Present(l))
        => /\ propPc = "merged"
           /\ \A l \in Languages :
                \A i \in 1..Len(TextColumnsOf(l)) :
                    Present(l) <=> TextColumnsOf(l)[i] \in SeqToSet(prop_merged_df.columns)

\* C18: when the property join can begin, no submitted fetch, a
\* re-submitted one included, is still running, and every table in the
\* dictionary is the table of its language's complete list; and
\* fetch_all_categories has returned only when all its walks have ended.
C18_JoinBarrier ==
    /\ PropsReturned =>
          /\ \A f \in 1..Len(future_to_language) :
                 future_to_language[f].state # "running"
          /\ \A l \in Languages :
                 Present(l) => DictGet(prop_language_dfs, LANGUAGES[l]) = TableOf(l)
    /\ CoordinatorFinished => AllFinished

C18_Witness ==
    /\ propPc = "merged"
    /\ \E l \in Languages : RetrySucceeded(l)
    /\ \E l \in Languages : Present(l) /\ TableOf(l).rows # <<>>

\* two languages in the dictionary have a row for the same
\* (categoryId, valueId, propertyId) with different values of a flag
FlagColumns == <<"saleProp", "required", "inputProp", "enumProp", "hasUnit">>

HasColumns(df, cols) == \A i \in 1..Len(cols) : cols[i] \in SeqToSet(df.columns)

FlagConflict ==
    \E i, j \in 1..Len(prop_language_dfs) :
        LET a == prop_language_dfs[i][2]
            b == prop_language_dfs[j][2]
        IN /\ i # j
           /\ HasColumns(a, PropMergeKeys \o FlagColumns)
           /\ HasColumns(b, PropMergeKeys \o FlagColumns)
           /\ \E r \in 1..Len(a.rows), q \in 1..Len(b.rows) :
                 /\ \A k \in SeqToSet(PropMergeKeys) : a.rows[r][k] = b.rows[q][k]
                 /\ \E c \in SeqToSet(FlagColumns) : a.rows[r][c] # b.rows[q][c]

\* C19: when merge_category_properties has run on tables that conflict in a
\* flag, the conflict was reported: a message about it was logged or the
\* call ended with an error.
C19_FlagConflictSurfaced ==
    (PropsMerged /\ FlagConflict)
        => propPc = "merge_raised" \/ "flag_conflict" \in prop_log

\* the languages the dictionary holds, in the order of LANGUAGES
PresentInListOrder == SelectSeq(AllLanguages, LAMBDA l : Present(l))

\* C20: the outcome of the property pipeline is the one of the run in which
\* the fetches complete in the order of LANGUAGES: the same exception, or
\* the same columns in the same order and the same set of rows.
C20_InterleavingIndependent ==
    PropsMerged =>
        LET ref == merge_category_properties(DictOfLanguages(PresentInListOrder))
        IN IF ref.exc # "none"
           THEN propPc = "merge_raised" /\ prop_merged_df.columns = <<ref.exc>>
           ELSE /\ propPc = "merged"
                /\ prop_merged_df.columns = ref.df.columns
                /\ SeqToSet(prop_merged_df.rows) = SeqToSet(ref.df.rows)

-----------------------------------------------------------------------------
(* Further claims about main()'s suffixing and join (checked under SpecMerge) *)

-----------------------------------------------------------------------------
(* Further claims about the property pipeline (checked under SpecProps) *)

KeyMatches(df, r, row) ==
    \A k \in SeqToSet(PropMergeKeys) :
        k \in SeqToSet(df.columns) /\ df.rows[r][k] = row[k]

\* the positions in the dictionary of the languages whose table has the key
\* of 'row'
HoldersOf(row) ==
    {i \in 1..Len(prop_language_dfs) :
        \E r \in 1..Len(prop_language_dfs[i][2].rows) :
            KeyMatches(prop_language_dfs[i][2], r, row)}

FirstHolderOf(row) == CHOOSE i \in HoldersOf(row) : \A j \in HoldersOf(row) : i <= j

\* C22: in the exported property table, the flag columns of every row hold
\* the values of the first language in merge order whose table has the
\* row's (categoryId, valueId, propertyId), also when that is not the
\* first language merged.
C22_FirstSeenFlags ==
    propPc = "merged" =>
        \A q \in 1..Len(prop_merged_df.rows) :
            LET row == prop_merged_df.rows[q]
                df == prop_language_dfs[FirstHolderOf(row)][2]
            IN /\ HoldersOf(row) # {}
               /\ \A r \in 1..Len(df.rows) :
                     KeyMatches(df, r, row) =>
                         \A c \in SeqToSet(FlagColumns) : row[c] = df.rows[r][c]

\* every fetch of language l raises and no fetch of another language does
OnlyFailing(l) ==
    /\ raising[l] = AlwaysRaises
    /\ \A o \in Languages \ {l} : raising[o] = 0

\* C23: the retry counter is never below 0, and once
\* fetch_category_properties has returned with exactly one language
\* failing on every attempt, that language was attempted 1 + 3 times and
\* the exceeded retry limit was logged.
C23_RetryBudget ==
    /\ retry_count >= 0
    /\ PropsReturned =>
          \A l \in Languages :
              OnlyFailing(l) =>
                  /\ Len(FuturesOf(l)) = 1 + InitialRetryCount
                  /\ "retry_limit_exceeded" \in prop_log

-----------------------------------------------------------------------------
(* Further claims about the walker (checked under Spec and SpecLive) *)

\* how often the walk of future t fetched the children of node n
FetchCount(t, n) ==
    Cardinality({i \in 1..Len(fetched[t]) : fetched[t][i].categoryId = IdOf(n)})

\* the nodes a walk from root t has to fetch: t and every node below it
\* that is not a leaf
NonLeavesUnder(t) == {n \in Nodes : RootOf(n) = t /\ ~IsLeaf(n)}

FetchDiscipline ==
    \A t \in Roots :
        /\ \A i \in 1..Len(fetched[t]) : fetched[t][i].language = language
        /\ \A n \in Nodes :
              /\ FetchCount(t, n) <= 1
              /\ (IsLeaf(n) \/ RootOf(n) # t) => FetchCount(t, n) = 0
        /\ (tstate[t] = "done" /\ NoFault) =>
              \A n \in NonLeavesUnder(t) : FetchCount(t, n) = 1

\* the guard of one of the steps of the walk of future t holds: of
\* GetRaises, GetFails or GetOk at a call's start, of LoopEnd, LoopKeyError,
\* LoopRecurse or LoopLeaf inside its loop
SomeStepEnabled(t) ==
    LET f == Top(stack[t])
        r == HttpGet(f.url)
        complete == KeysRead(CurrentRecord(t)) \subseteq DictKeys(CurrentRecord(t))
    IN \/ /\ f.pc = "get"
          /\ \/ r.raises
             \/ ~r.raises /\ (r.status_code # 200 \/ ~r.decodable \/ ~r.hasData)
             \/ ~r.raises /\ r.status_code = 200 /\ r.decodable /\ r.hasData
       \/ /\ f.pc = "loop"
          /\ \/ f.i > Len(f.categories)
             \/ InLoop(t) /\ ~complete
             \/ InLoop(t) /\ complete /\ ~DictGet(CurrentRecord(t), "leafCategory")
             \/ InLoop(t) /\ complete /\ DictGet(CurrentRecord(t), "leafCategory")

\* a walk that has not ended can take a step
WalkCanStep ==
    \A t \in Roots :
        tstate[t] = "running" => (stack[t] # <<>> /\ SomeStepEnabled(t))

FetchWeight == 2 * NumNodes + 1

\* the records the loops of the frames of st have still to visit
RECURSIVE RecordsLeft(_)
RecordsLeft(st) ==
    IF st = <<>> THEN 0
    ELSE RecordsLeft(Tail(st))
           + (IF Head(st).pc = "loop"
              THEN Len(Head(st).categories) + 1 - Head(st).i ELSE 0)

\* what the walk of future t has still to do at most: nodes to fetch,
\* records to visit, calls to return from
WalkMeasure(t) ==
    IF tstate[t] = "pending" THEN (NumNodes + 2) * FetchWeight
    ELSE (NumNodes - Len(fetched[t])) * FetchWeight
           + 2 * RecordsLeft(stack[t]) + Len(stack[t])

RECURSIVE MeasureUpTo(_)
MeasureUpTo(t) == IF t = 0 THEN 0 ELSE MeasureUpTo(t - 1) + WalkMeasure(t)

TotalMeasure == MeasureUpTo(NumRoots)

TotalMeasureNext == TotalMeasure'

\* C24: every walk ends: each step of a walk lowers a measure that is never
\* negative, and a walk that has not ended can take a step.  It fetches with
\* its own language tag, fetches no node twice and no leaf, and when it has
\* ended on a tree served without faults it has fetched its start node and
\* every non-leaf node below it exactly once.
C24_WalkTerminatesOneFetchPerNode ==
    /\ [](FetchDiscipline /\ WalkCanStep /\ TotalMeasure >= 0)
    /\ [][TotalMeasureNext < TotalMeasure]_<<stack, tstate, fetched, result>>

C24_Witness ==
    \E t \in Roots :
        /\ tstate[t] = "done"
        /\ NoFault
        /\ Len(fetched[t]) >= 2
        /\ LeavesUnder(t) # {}

-----------------------------------------------------------------------------
(* The empty language (checked under SpecMerge) *)

\* the frame of the language's rows has every column of the merge's 'on' list
HasAllMergeKeys(l) ==
    SeqToSet(MergeKeys) \subseteq SeqToSet(DataFrameOf(language_categories[l]).columns)

\* one language has no rows, another has, and the languages with rows have
\* frames that can be merged with each other
OneLanguageEmpty ==
    /\ \E l \in Languages : language_categories[l] = <<>>
    /\ \E l \in Languages : language_categories[l] # <<>>
    /\ \A l \in Languages : language_categories[l] # <<>> => HasAllMergeKeys(l)

\* C25: when one language has no category rows and another has, the merge
\* completes and the unified table has, for every row of a language with
\* rows, a row with its hierarchy ids and that language's top-level name,
\* wherever the empty language stands in the list.
C25_EmptyLanguageTolerated ==
    (MergeFinished /\ OneLanguageEmpty)
        => /\ mergePc = "done"
           /\ \A l \in Languages :
                \A i \in 1..Len(language_categories[l]) :
                    \E r \in 1..Len(merged_df.rows) :
                        LET row == merged_df.rows[r]
                            top == "topCategoryName_" \o LANGUAGES[l]
                        IN /\ KeyOfRow(row) = KeyOfDict(language_categories[l][i])
                           /\ top \in DOMAIN row
                           /\ row[top] = DictGet(language_categories[l][i], "topCategoryName")

-----------------------------------------------------------------------------
(* The path boundary and the malformed record (checked under Spec) *)

\* the row of result[t] at position i reports leaf n with every id of the
\* path the API reported for n
RowCarriesReportedPath(t, i, n) ==
    LET row == result[t][i]
        p == ReportedPath(n)
    IN /\ DictHas(row, "leafCategoryId")
       /\ DictGet(row, "leafCategoryId") = IdOf(n)
       /\ DictHas(row, "topCategoryId")
       /\ DictGet(row, "topCategoryId") = IdOf(p[1])
       /\ \A k \in 2..Len(p) :
            /\ DictHas(row, SubLevelIdKey(k - 1))
            /\ DictGet(row, SubLevelIdKey(k - 1)) = IdOf(p[k])

\* C27: when the reported categoryIdPath of a leaf stops at its parent, the
\* row emitted for the leaf has every id of the reported path (index 0 as
\* topCategoryId, index k as subCategoryLevel{k}Id) and the leaf's own id as
\* leafCategoryId.
C27_ParentPathKeptWithLeaf ==
    \A t \in Roots :
        (Finished(t) /\ NoFault /\ pathStyle = "parent")
            => \A n \in LeavesUnder(t) :
                 \E i \in 1..Len(result[t]) : RowCarriesReportedPath(t, i, n)

OnlyFaultIsRecordOf(m) ==
    /\ missingKey[m] # "none"
    /\ \A n \in Nodes \ {m} : missingKey[n] = "none"
    /\ \A n \in Nodes : fetchFault[n] = "ok"

EmittedLeaf(t, n) ==
    \E i \in 1..Len(result[t]) :
        /\ DictHas(result[t][i], "leafCategoryName")
        /\ DictGet(result[t][i], "leafCategoryName") = NameOf(n, language)

\* C28: when the only fault is one child record that lacks a key the loop
\* body reads, the walk ends normally and only that child is skipped: every
\* leaf listed after it in the same response, and every other leaf outside
\* its subtree, has its row in the result.
C28_MalformedRecordIsolated ==
    \A t \in Roots : \A m \in Nodes \ Roots :
        (/\ Finished(t)
         /\ OnlyFaultIsRecordOf(m)
         /\ RootOf(m) = t
         /\ ~(KeysRead(ChildRecord(m, language)) \subseteq DictKeys(ChildRecord(m, language))))
            => /\ tstate[t] = "done"
               /\ \A n \in LeavesUnder(t) :
                    (n # m /\ m \notin SeqToSet(PathTo(n))) => EmittedLeaf(t, n)

-----------------------------------------------------------------------------
(* SpecPlaceholder: main() of src/src/backup/'property_language copy 2.py' *)

NumPhCategories == 2    \* most category ids in the category file

\* LANGUAGES of the variant
PhLanguages == <<"en", "de", "fr">>

PhCategoryId(c) == "c" \o ToString(c)

\* what the listProp API holds for a category: no property, one property
\* without values, one enum property with one value, both, or a failure
PhKinds == {"no_items", "unvalued", "valued", "mixed", "http_error"}

PhUnvaluedItem(c, lang) ==
    [propertyText |-> "size" \o ToString(c) \o lang, enumProp |-> FALSE,
     propertyValues |-> <<>>]

PhValuedItem(c, lang) ==
    [propertyText |-> "colour" \o ToString(c) \o lang, enumProp |-> TRUE,
     propertyValues |-> <<[valueId |-> "v" \o ToString(c),
                           valueText |-> "red" \o ToString(c) \o lang]>>]

\* requests.get(BASE_URL, params) for category c in language lang
PhHttpGet(c, lang) ==
    LET kind == phResponse[c]
        silent == lang \in phSilent
    IN [status_code |-> IF kind = "http_error" /\ ~silent THEN 500 ELSE 200,
        data |-> IF silent \/ kind \in {"no_items", "http_error"} THEN <<>>
                 ELSE IF kind = "unvalued" THEN <<PhUnvaluedItem(c, lang)>>
                 ELSE IF kind = "valued" THEN <<PhValuedItem(c, lang)>>
                 ELSE <<PhValuedItem(c, lang), PhUnvaluedItem(c, lang)>>]

PhRecord(c, lang, text, valueId, valueText) ==
    << <<"categoryId", PhCategoryId(c)>>, <<"valueId", valueId>>,
       <<"language", lang>>, <<"propertyText", text>>,
       <<"valueText", valueText>> >>

\* the records one item of the response gives
PhRecordsOfItem(c, lang, item) ==
    LET perValue == [k \in 1..Len(item.propertyValues) |->
                        PhRecord(c, lang, item.propertyText,
                                 item.propertyValues[k].valueId,
                                 item.propertyValues[k].valueText)]
    IN IF item.enumProp THEN perValue
       ELSE IF item.propertyValues # <<>> THEN perValue
       ELSE <<PhRecord(c, lang, item.propertyText, "None", "None")>>

RECURSIVE PhRecordsOfItems(_, _, _)
PhRecordsOfItems(c, lang, data) ==
    IF data = <<>> THEN <<>>
    ELSE PhRecordsOfItem(c, lang, Head(data))
            \o PhRecordsOfItems(c, lang, Tail(data))

fetch_property_values(c, lang) ==
    LET response == PhHttpGet(c, lang)
    IN [raises |-> response.status_code # 200,
        property_values |-> IF response.status_code = 200
                            THEN PhRecordsOfItems(c, lang, response.data)
                            ELSE <<>>]

NotNull(cell) == cell \notin {"None", "NaN"}

\* df[df['valueId'].notnull()] and the groupby filter, which keeps every
\* group of the already filtered frame
PhFiltered(records) ==
    SelectSeq(records, LAMBDA r : NotNull(DictGet(r, "valueId")))

PhColumnsOrder ==
    <<"categoryId", "valueId", "propertyText_en", "valueText_en",
      "propertyText_de", "valueText_de", "propertyText_fr", "valueText_fr">>

\* the languages that have a column in the pivot table
PhPivotLanguages(filtered) ==
    {DictGet(filtered[i], "language") : i \in 1..Len(filtered)}

\* the categories with a row in the pivot table, in index order
PhPivotCategories(filtered) ==
    SelectSeq([c \in 1..Len(ph_category_ids) |-> c],
              LAMBDA c : \E i \in 1..Len(filtered) :
                            DictGet(filtered[i], "categoryId") = PhCategoryId(c))

\* aggfunc='first' of one cell of the pivot table
PhFirst(filtered, c, lang, column) ==
    LET hits == SelectSeq(filtered, LAMBDA r :
                    /\ DictGet(r, "categoryId") = PhCategoryId(c)
                    /\ DictGet(r, "language") = lang)
    IN IF hits = <<>> THEN "NaN" ELSE DictGet(Head(hits), column)

PhPivotRow(filtered, c) ==
    LET langOf(col) == SubSeq(col, Len(col) - 1, Len(col))
        baseOf(col) == SubSeq(col, 1, Len(col) - 3)
    IN [col \in SeqToSet(PhColumnsOrder) |->
          IF col = "categoryId" THEN PhCategoryId(c)
          ELSE IF col = "valueId" THEN PhFirst(filtered, c, "en", "valueId")
          ELSE PhFirst(filtered, c, langOf(col), baseOf(col))]

\* df_pivot[columns_order] raises KeyError when a language has no column
PhSelectRaises(filtered) ==
    \E l \in 1..Len(PhLanguages) : PhLanguages[l] \notin PhPivotLanguages(filtered)

PhPivotTable(filtered) ==
    LET cats == PhPivotCategories(filtered)
    IN [columns |-> PhColumnsOrder,
        rows |-> [k \in 1..Len(cats) |-> PhPivotRow(filtered, cats[k])]]

PhPlaceholderText(c, lang) ==
    "Placeholder for Category " \o PhCategoryId(c) \o " in " \o lang

PhAllPairs ==
    [k \in 1..(Len(ph_category_ids) * Len(PhLanguages)) |->
        [category |-> ((k - 1) \div Len(PhLanguages)) + 1,
         language |-> PhLanguages[((k - 1) % Len(PhLanguages)) + 1]]]

PhPlaceholderRows ==
    [k \in 1..Len(PhAllPairs) |->
        << <<"categoryId", PhCategoryId(PhAllPairs[k].category)>>,
           <<"language", PhAllPairs[k].language>>,
           <<"propertyText", PhPlaceholderText(PhAllPairs[k].category,
                                               PhAllPairs[k].language)>>,
           <<"valueId", "None">>, <<"valueText", "None">> >>]

\* s3_client.get_object / pd.read_csv raises: the except clause of main logs
PhReadRaises ==
    /\ phPc = "read"
    /\ phReadFails
    /\ phPc' = "failed"
    /\ UNCHANGED <<phResponse, phSilent, phReadFails, ph_category_ids,
                   ph_futures, all_property_values, phNext, df_pivot,
                   s3Vars, bkVars, fmtVars, apiVars, walkVars, mergeVars,
                   propVars>>

\* category_ids = df_category['categoryId'].unique().tolist()
PhRead ==
    /\ phPc = "read"
    /\ ~phReadFails
    /\ ph_category_ids' = [c \in DOMAIN phResponse |-> PhCategoryId(c)]
    /\ phPc' = "submit"
    /\ UNCHANGED <<phResponse, phSilent, phReadFails, ph_futures,
                   all_property_values, phNext, df_pivot,
                   s3Vars, bkVars, fmtVars, apiVars, walkVars, mergeVars,
                   propVars>>

\* one future per category id and language, category by category
PhSubmit ==
    /\ phPc = "submit"
    /\ ph_futures' = PhAllPairs
    /\ phNext' = 1
    /\ phPc' = "collect"
    /\ UNCHANGED <<phResponse, phSilent, phReadFails, ph_category_ids,
                   all_property_values, df_pivot,
                   s3Vars, bkVars, fmtVars, apiVars, walkVars, mergeVars,
                   propVars>>

\* all_property_values.extend(future.result())
PhCollect ==
    /\ phPc = "collect"
    /\ phNext <= Len(ph_futures)
    /\ LET f == ph_futures[phNext]
           r == fetch_property_values(f.category, f.language)
       IN /\ ~r.raises
          /\ all_property_values' = all_property_values \o r.property_values
    /\ phNext' = phNext + 1
    /\ UNCHANGED <<phResponse, phSilent, phReadFails, ph_category_ids,
                   ph_futures, df_pivot, phPc,
                   s3Vars, bkVars, fmtVars, apiVars, walkVars, mergeVars,
                   propVars>>

\* future.result() re-raises the RequestException of the worker; it leaves
\* fetch_all_property_values and is logged by main's except clause
PhCollectRaises ==
    /\ phPc = "collect"
    /\ phNext <= Len(ph_futures)
    /\ fetch_property_values(ph_futures[phNext].category,
                             ph_futures[phNext].language).raises
    /\ phPc' = "failed"
    /\ UNCHANGED <<phResponse, phSilent, phReadFails, ph_category_ids,
                   ph_futures, all_property_values, phNext, df_pivot,
                   s3Vars, bkVars, fmtVars, apiVars, walkVars, mergeVars,
                   propVars>>

\* a frame made of an empty list has no column: df['valueId'] raises
\* KeyError; so does the column selection after the pivot
PhTableRaises ==
    /\ phPc = "collect"
    /\ phNext > Len(ph_futures)
    /\ \/ all_property_values = <<>>
       \/ /\ PhFiltered(all_property_values) # <<>>
          /\ PhSelectRaises(PhFiltered(all_property_values))
    /\ phPc' = "failed"
    /\ UNCHANGED <<phResponse, phSilent, phReadFails, ph_category_ids,
                   ph_futures, all_property_values, phNext, df_pivot,
                   s3Vars, bkVars, fmtVars, apiVars, walkVars, mergeVars,
                   propVars>>

\* the pivot table, or the placeholder rows when the filtered frame is
\* empty; then to_csv and put_object
PhExport ==
    /\ phPc = "collect"
    /\ phNext > Len(ph_futures)
    /\ all_property_values # <<>>
    /\ LET filtered == PhFiltered(all_property_values)
       IN IF filtered # <<>>
          THEN /\ ~PhSelectRaises(filtered)
               /\ df_pivot' = PhPivotTable(filtered)
          ELSE df_pivot' = DataFrameOf(PhPlaceholderRows)
    /\ phPc' = "exported"
    /\ UNCHANGED <<phResponse, phSilent, phReadFails, ph_category_ids,
                   ph_futures, all_property_values, phNext,
                   s3Vars, bkVars, fmtVars, apiVars, walkVars, mergeVars,
                   propVars>>

InitPlaceholder ==
    /\ FmtIdle
    /\ ApiIdle
    /\ WalkIdle
    /\ MergeIdle
    /\ PropIdle
    /\ S3Idle
    /\ BkIdle
    /\ phResponse \in UNION {[1..n -> PhKinds] : n \in 0..NumPhCategories}
    /\ phSilent \in SUBSET SeqToSet(PhLanguages)
    /\ phReadFails \in BOOLEAN
    /\ ph_category_ids = <<>>
    /\ ph_futures = <<>>
    /\ all_property_values = <<>>
    /\ phNext = 0
    /\ df_pivot = <<>>
    /\ phPc = "read"

NextPlaceholder ==
    \/ PhReadRaises
    \/ PhRead
    \/ PhSubmit
    \/ PhCollect
    \/ PhCollectRaises
    \/ PhTableRaises
    \/ PhExport

SpecPlaceholder == InitPlaceholder /\ [][NextPlaceholder]_vars

\* the fetch has ended without an exception
PhFetchEnded ==
    phPc \in {"collect", "exported", "failed"} /\ phNext > Len(ph_futures)

PhEnded == phPc \in {"exported", "failed"}

IsPlaceholderRow(row) ==
    /\ "propertyText" \in DOMAIN row
    /\ \E c \in 1..Len(ph_category_ids) : \E l \in 1..Len(PhLanguages) :
          row["propertyText"] = PhPlaceholderText(c, PhLanguages[l])

\* C26: when the fetch has yielded zero records for the whole category-id
\* set, the exported table is the placeholder rows, one per (categoryId,
\* language), with the synthetic propertyText and null valueId / valueText;
\* when it has yielded a record, no placeholder row is exported.
C26_PlaceholderOnlyWhenNoRecord ==
    (PhEnded /\ PhFetchEnded)
        => IF all_property_values = <<>>
           THEN /\ phPc = "exported"
                /\ df_pivot = DataFrameOf(PhPlaceholderRows)
           ELSE phPc = "exported"
                    => \A i \in 1..Len(df_pivot.rows) :
                            ~IsPlaceholderRow(df_pivot.rows[i])


-----------------------------------------------------------------------------
(* SpecRetry: main() of src/src/backup/category_language.py *)

MAX_RETRIES == 5

MaxReadFailures == 6    \* most S3 reads that fail before one succeeds
NumFileIds == 1         \* most category ids in the level3 file

LANGUAGE_CODES == <<"en", "de", "fr">>

FileCategoryId(c) == "k" \o ToString(c)

\* outcome of fetch_category_name for a category: a name, None (non-200
\* response or no categoryName), or an exception of requests.get
NameOutcomes == {"name", "none", "raises"}

fetch_category_name(c, lang) ==
    [raises |-> nameOutcome[c] = "raises",
     category_name |-> IF nameOutcome[c] = "name"
                       THEN "name" \o ToString(c) \o lang ELSE "None"]

\* the loop runs one attempt more
RetryLoopRuns_OneMore(count) == count <= MAX_RETRIES

\* while retry_count < MAX_RETRIES
RetryLoopRuns(count) == count < MAX_RETRIES

\* if retry_count < MAX_RETRIES: time.sleep(RETRY_INTERVAL_SECONDS)
SleepsAfterFailure(count) == count < MAX_RETRIES

\* an attempt whose get_object (or the parsing of the file) raises: log,
\* count it, and wait unless it was the last one
S3ReadFails ==
    /\ s3Pc = "read"
    /\ RetryLoopRuns(s3_retry_count)
    /\ s3_reads < readFailures
    /\ s3_reads' = s3_reads + 1
    /\ s3_retry_count' = s3_retry_count + 1
    /\ s3_sleeps' = IF SleepsAfterFailure(s3_retry_count')
                    THEN Append(s3_sleeps, s3_retry_count')
                    ELSE s3_sleeps
    /\ UNCHANGED <<readFailures, nameOutcome, uploadFails, file_category_ids,
                   names_requested, names_pending, category_info, uploaded,
                   s3Pc, phVars, bkVars, fmtVars, apiVars, walkVars,
                   mergeVars, propVars>>

\* an attempt that reads the file: category_ids is set and 'break' leaves
\* the loop
S3ReadOk ==
    /\ s3Pc = "read"
    /\ RetryLoopRuns(s3_retry_count)
    /\ s3_reads >= readFailures
    /\ s3_reads' = s3_reads + 1
    /\ file_category_ids' = [c \in DOMAIN nameOutcome |-> FileCategoryId(c)]
    /\ s3Pc' = "submit"
    /\ UNCHANGED <<readFailures, nameOutcome, uploadFails, s3_retry_count,
                   s3_sleeps, names_requested, names_pending, category_info,
                   uploaded, phVars, bkVars, fmtVars, apiVars, walkVars,
                   mergeVars, propVars>>

\* the else clause of the while loop: the condition became false without a
\* break; main returns
S3GiveUp ==
    /\ s3Pc = "read"
    /\ ~RetryLoopRuns(s3_retry_count)
    /\ s3Pc' = "gave_up"
    /\ UNCHANGED <<readFailures, nameOutcome, uploadFails, s3_retry_count,
                   s3_reads, s3_sleeps, file_category_ids, names_requested,
                   names_pending, category_info, uploaded, phVars, bkVars,
                   fmtVars, apiVars, walkVars, mergeVars, propVars>>

NamePairs ==
    {[category |-> c, language |-> LANGUAGE_CODES[l]] :
        c \in 1..Len(file_category_ids), l \in 1..Len(LANGUAGE_CODES)}

\* future_to_category: one future per category id and language
NamesSubmit ==
    /\ s3Pc = "submit"
    /\ names_requested' = NamePairs
    /\ names_pending' = NamePairs
    /\ s3Pc' = "names"
    /\ UNCHANGED <<readFailures, nameOutcome, uploadFails, s3_retry_count,
                   s3_reads, s3_sleeps, file_category_ids, category_info,
                   uploaded, phVars, bkVars, fmtVars, apiVars, walkVars,
                   mergeVars, propVars>>

\* as_completed yields future f: its name is stored unless it is None or
\* future.result() raises, which is logged
NameYield(f) ==
    /\ s3Pc = "names"
    /\ f \in names_pending
    /\ names_pending' = names_pending \ {f}
    /\ LET r == fetch_category_name(f.category, f.language)
       IN category_info' =
            IF ~r.raises /\ r.category_name # "None"
            THEN category_info \cup
                    {[category |-> f.category, language |-> f.language,
                      category_name |-> r.category_name]}
            ELSE category_info
    /\ UNCHANGED <<readFailures, nameOutcome, uploadFails, s3_retry_count,
                   s3_reads, s3_sleeps, file_category_ids, names_requested,
                   uploaded, s3Pc, phVars, bkVars, fmtVars, apiVars,
                   walkVars, mergeVars, propVars>>

\* the table is written and uploaded
S3Upload ==
    /\ s3Pc = "names"
    /\ names_pending = {}
    /\ ~uploadFails
    /\ uploaded' = TRUE
    /\ s3Pc' = "done"
    /\ UNCHANGED <<readFailures, nameOutcome, uploadFails, s3_retry_count,
                   s3_reads, s3_sleeps, file_category_ids, names_requested,
                   names_pending, category_info, phVars, bkVars, fmtVars,
                   apiVars, walkVars, mergeVars, propVars>>

\* to_csv or put_object raises: logged, main returns
S3UploadRaises ==
    /\ s3Pc = "names"
    /\ names_pending = {}
    /\ uploadFails
    /\ s3Pc' = "upload_failed"
    /\ UNCHANGED <<readFailures, nameOutcome, uploadFails, s3_retry_count,
                   s3_reads, s3_sleeps, file_category_ids, names_requested,
                   names_pending, category_info, uploaded, phVars, bkVars,
                   fmtVars, apiVars, walkVars, mergeVars, propVars>>

InitRetry ==
    /\ FmtIdle
    /\ ApiIdle
    /\ WalkIdle
    /\ MergeIdle
    /\ PropIdle
    /\ PhIdle
    /\ BkIdle
    /\ readFailures \in 0..MaxReadFailures
    /\ nameOutcome \in UNION {[1..n -> NameOutcomes] : n \in 0..NumFileIds}
    /\ uploadFails \in BOOLEAN
    /\ s3_retry_count = 0
    /\ s3_reads = 0
    /\ s3_sleeps = <<>>
    /\ file_category_ids = <<>>
    /\ names_requested = {}
    /\ names_pending = {}
    /\ category_info = {}
    /\ uploaded = FALSE
    /\ s3Pc = "read"

NextRetry ==
    \/ S3ReadFails
    \/ S3ReadOk
    \/ S3GiveUp
    \/ NamesSubmit
    \/ \E f \in names_pending : NameYield(f)
    \/ S3Upload
    \/ S3UploadRaises

SpecRetry == InitRetry /\ [][NextRetry]_vars

\* the retry loop has been left
RetryLoopLeft == s3Pc \notin {"idle", "read"}

\* C29: the S3 read is attempted at most MAX_RETRIES = 5 times; an attempt
\* that succeeds is the last one and main goes on to the name fetch; when
\* all 5 attempts fail main returns with no category name fetched and
\* nothing uploaded; main waits after each of the first 4 failures and not
\* after the 5th.
C29_RetryLoopBounded ==
    /\ s3_reads <= MAX_RETRIES
    /\ s3_reads <= readFailures + 1
    /\ s3_retry_count <= MAX_RETRIES
    /\ Len(s3_sleeps) <= MAX_RETRIES - 1
    /\ \A i \in 1..Len(s3_sleeps) : s3_sleeps[i] = i
    /\ s3Pc = "read" => Len(s3_sleeps) = IF s3_retry_count < MAX_RETRIES
                                          THEN s3_retry_count
                                          ELSE MAX_RETRIES - 1
    /\ (RetryLoopLeft /\ readFailures < MAX_RETRIES)
            => /\ s3Pc \in {"submit", "names", "done", "upload_failed"}
               /\ s3_reads = readFailures + 1
               /\ s3_retry_count = readFailures
               /\ Len(s3_sleeps) = readFailures
               /\ s3Pc # "submit" => names_requested = NamePairs
    /\ (RetryLoopLeft /\ readFailures >= MAX_RETRIES)
            => /\ s3Pc = "gave_up"
               /\ s3_reads = MAX_RETRIES
               /\ Len(s3_sleeps) = MAX_RETRIES - 1
               /\ names_requested = {}
               /\ category_info = {}
               /\ ~uploaded

C29_Witness ==
    /\ s3Pc = "gave_up"
    /\ s3_reads = MAX_RETRIES
    /\ readFailures > MAX_RETRIES
    /\ Len(s3_sleeps) = MAX_RETRIES - 1


-----------------------------------------------------------------------------
(* SpecBackup: main() of src/src/backup/main.py *)

\* category_ids[:3]
TopSlice == 3

\* f'subCategoryLevel{index+1}Id' with index counted from 0
BackupEntry(position, cat_id, cat_name) ==
    IF position = 1
    THEN << <<"topCategoryId", cat_id>>, <<"topCategoryName", cat_name>> >>
    ELSE << <<"subCategoryLevel" \o ToString(position) \o "Id", cat_id>>,
            <<"subCategoryLevel" \o ToString(position) \o "Name", cat_name>> >>

\* format_category_paths of the backup: a list with one dict per level
BackupFormatCategoryPaths(idPath, namePath) ==
    IF Len(idPath) # Len(namePath)
    THEN [raises |-> TRUE, output |-> <<>>]
    ELSE [raises |-> FALSE,
          output |-> [k \in 1..Len(idPath) |->
                        BackupEntry(k, idPath[k], namePath[k])]]

\* the keys the loop body reads for a record (backup/main.py:60-65)
BackupKeysRead(rec) ==
    IF ~DictHas(rec, "leafCategory") THEN {"leafCategory"}
    ELSE IF ~DictGet(rec, "leafCategory")
         THEN {"leafCategory", "categoryId"}
         ELSE {"leafCategory", "categoryIdPath", "categoryNamePath"}

\* The rows one fetch_categories(url, result) call appends to 'result',
\* recursive calls included, and whether an exception leaves the call.
\* BackupFetch is the call for the children of node n, BackupLoop the rest
\* of its for loop from position i of the response.
RECURSIVE BackupFetch(_)
RECURSIVE BackupLoop(_, _)
BackupFetch(n) ==
    LET response == HttpGet(SubCategoriesUrl("en", IdOf(n)))
    IN IF response.raises THEN [rows |-> <<>>, raised |-> TRUE]
       ELSE IF response.status_code # 200 THEN [rows |-> <<>>, raised |-> FALSE]
       \* 'json' is not imported: naming json.JSONDecodeError raises NameError
       ELSE IF ~response.decodable THEN [rows |-> <<>>, raised |-> TRUE]
       ELSE IF ~response.hasData THEN [rows |-> <<>>, raised |-> FALSE]
       ELSE BackupLoop(response.data, 1)

BackupLoop(categories, i) ==
    IF i > Len(categories) THEN [rows |-> <<>>, raised |-> FALSE]
    ELSE LET rec == categories[i]
         IN IF ~(BackupKeysRead(rec) \subseteq DictKeys(rec))
            THEN [rows |-> <<>>, raised |-> FALSE]
            ELSE IF ~DictGet(rec, "leafCategory")
            THEN LET sub == BackupFetch(NodeOfId(DictGet(rec, "categoryId")))
                     rest == BackupLoop(categories, i + 1)
                 IN IF sub.raised THEN sub
                    ELSE [rows |-> sub.rows \o rest.rows,
                          raised |-> rest.raised]
            ELSE LET formatted == BackupFormatCategoryPaths(
                                      DictGet(rec, "categoryIdPath"),
                                      DictGet(rec, "categoryNamePath"))
                     rest == BackupLoop(categories, i + 1)
                 IN IF formatted.raises THEN [rows |-> <<>>, raised |-> TRUE]
                    ELSE [rows |-> <<formatted.output>> \o rest.rows,
                          raised |-> rest.raised]

\* {k: v for d in sublist for k, v in d.items()}
RECURSIVE MergeDicts(_)
MergeDicts(sublist) ==
    IF sublist = <<>> THEN EmptyDict
    ELSE DictUpdate(MergeDicts(SubSeq(sublist, 1, Len(sublist) - 1)),
                    sublist[Len(sublist)])

merge_dicts_and_export_csv(input_list) ==
    DataFrameOf([i \in 1..Len(input_list) |-> MergeDicts(input_list[i])])

\* the roots main walks
BkSlice == SubSeq(bk_category_ids, 1,
                  IF Len(bk_category_ids) < TopSlice
                  THEN Len(bk_category_ids) ELSE TopSlice)

\* fetch_category_ids returns the ids of the top categories
BkTopOk ==
    /\ bkPc = "top"
    /\ bk_category_ids' = [r \in Roots |-> IdOf(r)]
    /\ bkIdx' = 1
    /\ bkPc' = "loop"
    /\ UNCHANGED <<default_result, all_categories, bkReturned, bk_csv,
                   phVars, s3Vars, fmtVars, apiVars, walkVars, mergeVars,
                   propVars>>

\* fetch_category_ids fails (non-200, request or JSON error): it returns []
BkTopFails ==
    /\ bkPc = "top"
    /\ bk_category_ids' = <<>>
    /\ bkIdx' = 1
    /\ bkPc' = "loop"
    /\ UNCHANGED <<default_result, all_categories, bkReturned, bk_csv,
                   phVars, s3Vars, fmtVars, apiVars, walkVars, mergeVars,
                   propVars>>

\* all_categories += fetch_categories(start_url): the call appends to the
\* list that is the default of 'result' and returns that list
BkCall ==
    /\ bkPc = "loop"
    /\ bkIdx <= Len(BkSlice)
    /\ LET walk == BackupFetch(NodeOfId(BkSlice[bkIdx]))
       IN /\ ~walk.raised
          /\ default_result' = default_result \o walk.rows
    /\ all_categories' = all_categories \o default_result'
    /\ bkReturned' = Append(bkReturned, Len(default_result'))
    /\ bkIdx' = bkIdx + 1
    /\ UNCHANGED <<bk_category_ids, bk_csv, bkPc,
                   phVars, s3Vars, fmtVars, apiVars, walkVars, mergeVars,
                   propVars>>

\* an exception leaves fetch_categories and main
BkCallRaises ==
    /\ bkPc = "loop"
    /\ bkIdx <= Len(BkSlice)
    /\ BackupFetch(NodeOfId(BkSlice[bkIdx])).raised
    /\ bkPc' = "raised"
    /\ UNCHANGED <<default_result, all_categories, bk_category_ids,
                   bkReturned, bkIdx, bk_csv,
                   phVars, s3Vars, fmtVars, apiVars, walkVars, mergeVars,
                   propVars>>

\* merge_dicts_and_export_csv(all_categories)
BkExport ==
    /\ bkPc = "loop"
    /\ bkIdx > Len(BkSlice)
    /\ bk_csv' = merge_dicts_and_export_csv(all_categories)
    /\ bkPc' = "exported"
    /\ UNCHANGED <<default_result, all_categories, bk_category_ids,
                   bkReturned, bkIdx,
                   phVars, s3Vars, fmtVars, apiVars, walkVars, mergeVars,
                   propVars>>

InitBackup ==
    /\ FmtIdle
    /\ WalkIdle
    /\ MergeIdle
    /\ PropIdle
    /\ PhIdle
    /\ S3Idle
    /\ parent \in Forests
    /\ pathStyle \in {"self", "parent"}
    /\ language = "en"
    /\ \E S \in FaultSets(parent, MaxFaults) :
          /\ fetchFault = FetchFaultOf(S)
          /\ missingKey = MissingKeyOf(S)
    /\ default_result = <<>>
    /\ all_categories = <<>>
    /\ bk_category_ids = <<>>
    /\ bkReturned = <<>>
    /\ bkIdx = 0
    /\ bk_csv = <<>>
    /\ bkPc = "top"

NextBackup ==
    \/ BkTopOk
    \/ BkTopFails
    \/ BkCall
    \/ BkCallRaises
    \/ BkExport

SpecBackup == InitBackup /\ [][NextBackup]_vars

\* the rows found by the walks of the first k roots, walk by walk
RECURSIVE OwnRowsUpTo(_)
OwnRowsUpTo(k) ==
    IF k = 0 THEN <<>>
    ELSE OwnRowsUpTo(k - 1) \o BackupFetch(NodeOfId(BkSlice[k])).rows

\* C30: every fetch_categories(start_url) call of main returns only the rows
\* found in that call, and the list accumulated for the export has every
\* discovered leaf row exactly once: it is the rows of the first walk, then
\* those of the second, and so on.
C30_WalkResultsNotShared ==
    bkPc \in {"loop", "exported"}
        => /\ \A k \in 1..Len(bkReturned) :
                bkReturned[k] = Len(BackupFetch(NodeOfId(BkSlice[k])).rows)
           /\ all_categories = OwnRowsUpTo(Len(bkReturned))

=============================================================================
